---- MODULE Spec2Model ----
(***************************************************************************)
(* Model of the clinic records program (src/frontend.py): the SQLite store *)
(* built by ClinicDatabase.create_tables, and the handlers of the patient  *)
(* appointment and billing forms that read and write it, and its export    *)
(* and import of the tables as a JSON document.                            *)
(*                                                                         *)
(* A table is a set of rows (records named after the columns).  An SQL     *)
(* statement is an operator from the tables to a result record             *)
(* [ok, table, seq]: ok = FALSE is the sqlite3.IntegrityError the statement*)
(* raises, and then table and seq are the ones before the statement (the   *)
(* statement is rolled back as a whole, triggers included).                *)
(*                                                                         *)
(* The program opens the store through one connection and runs one handler *)
(* at a time (Tk main loop); every handler is one action.  What the user   *)
(* types or picks in a form before pressing a button is the input of the   *)
(* button's handler, limited to what the widgets offer.                    *)
(***************************************************************************)
EXTENDS Integers, Sequences, FiniteSets, TLC

VARIABLES
    Users,               \* table Users
    Patients,            \* table Patients
    Doctors,             \* table Doctors
    Appointments,        \* table Appointments
    Bills,               \* table Bills
    BillItems,           \* table BillItems
    MedicalTests,        \* table MedicalTests
    sqlite_sequence,     \* AUTOINCREMENT counters, per table
    disk,                \* the tables as last committed to clinic.db
    document,            \* the JSON file export_data writes and import_data reads
    current_bill,        \* BillingManagementFrame.current_bill
    bill_vars,           \* BillingManagementFrame.vars, as the handlers set them
    appointment_combo,   \* values of BillingManagementFrame.appointment_combo
    dialog,              \* bill_id of the open BillItemDialog
    current_doctor,      \* DoctorManagementFrame.current_doctor
    doctor_vars,         \* DoctorManagementFrame.vars, as the handlers set them
    screen,              \* which frame MainApplication shows
    user_id,             \* MainApplication.user_id
    user_role,           \* MainApplication.user_role
    current_patient,     \* PatientManagementFrame.current_patient
    current_appointment, \* AppointmentManagementFrame.current_appointment
    vars,                \* AppointmentManagementFrame.vars, as the handlers set them
    combos,              \* values of patient_combo, doctor_combo, status_combo
    msg,                 \* the last messagebox shown
    sessions,            \* concurrent callers: each one's position, form and outcome
    lock,                \* the connection holding the store's write lock
    pending,             \* the lock holder's uncommitted tables
    script               \* the booking scenario: its parameters and position

vars_db  == <<Users, Patients, Doctors, Appointments, Bills, BillItems, MedicalTests,
              sqlite_sequence>>
vars_ui  == <<screen, user_id, user_role, current_patient, current_appointment,
              vars, combos, msg>>
vars_bill == <<current_bill, bill_vars, appointment_combo, dialog>>
vars_doctor == <<current_doctor, doctor_vars>>
vars_file == <<disk, document>>
vars_con == <<sessions, lock, pending>>
allvars  == <<vars_db, vars_ui, vars_bill, vars_doctor, vars_file, vars_con, script>>

(***************************************************************************)
(* Bounds of the model.                                                    *)
(***************************************************************************)
\* rows the Patients table may hold
MaxPatients == 2
\* appointment ids the store may issue
MaxAppointments == 2

(***************************************************************************)
(* Values.                                                                 *)
(***************************************************************************)
\* Python's None for current_patient / current_appointment / user_id.  The
\* handlers test them with `if self.current_x:`, which None and 0 both fail;
\* AUTOINCREMENT ids start at 1.
None == 0

\* SQL NULL in a text column
NULL == <<"NULL">>

\* an empty Entry / Combobox
Blank == <<>>

\* the text "<id>:<label>" of a combobox entry, and int(text.split(':')[0])
Choice(id) == <<id>>
IdOf(text) == text[1]

\* what the user may type into the first-name entry ("" is an empty entry)
FirstNames == {"", "Ann", "Bob"}

\* what the user may type into the date and time fields and the notes entry
Dates == {"", "2024-06-01"}
Times == {"", "09:00", "09:15"}
NotesTexts == {"", "follow-up"}

\* what the user may type into the login form
Usernames == {"", "admin", "faryaln"}
Passwords == {"", "admin123", "f047-nb"}

(***************************************************************************)
(* Text and number helpers of the SQL expressions.                         *)
(***************************************************************************)
DigitChar(d) == <<"0", "1", "2", "3", "4", "5", "6", "7", "8", "9">>[d + 1]

\* the decimal text of a non-negative integer (SQLite's integer -> text cast)
RECURSIVE Str(_)
Str(n) == IF n < 10 THEN <<DigitChar(n)>>
          ELSE Str(n \div 10) \o <<DigitChar(n % 10)>>

\* SQLite substr(X, Y, Z) for Z >= 0: characters are numbered from 1, a
\* negative Y counts from the right end, and positions before the first
\* character use up length without yielding characters.
substr(X, Y, Z) ==
    LET first == IF Y < 0 THEN Len(X) + Y + 1 ELSE Y
        last  == first + Z - 1
        lo    == IF first < 1 THEN 1 ELSE first
        hi    == IF last > Len(X) THEN Len(X) ELSE last
    IN  IF hi < lo THEN <<>> ELSE SubSeq(X, lo, hi)

\* the error box of a handler that caught sqlite3.IntegrityError for a UNIQUE
\* constraint: "Database error: " + str(e)
UniqueFailed == "Database error: UNIQUE constraint failed"

\* hashlib.sha256(password).hexdigest(): injective on the passwords used
hash_password(password) == <<"sha256", password>>

(***************************************************************************)
(* The rows insert_sample_data writes (the columns the handlers read).     *)
(***************************************************************************)
SampleUsers ==
    { [UserID |-> 1, Username |-> "admin", PasswordHash |-> hash_password("admin123"),
       Role |-> "Admin", IsActive |-> 1],
      [UserID |-> 2, Username |-> "aimenmnr", PasswordHash |-> hash_password("am2476"),
       Role |-> "Doctor", IsActive |-> 1],
      [UserID |-> 3, Username |-> "faryaln", PasswordHash |-> hash_password("f047-nb"),
       Role |-> "Nurse", IsActive |-> 1] }

AppointmentStatuses ==
    { [StatusID |-> 1, StatusName |-> "Scheduled"],
      [StatusID |-> 2, StatusName |-> "Completed"],
      [StatusID |-> 3, StatusName |-> "Cancelled"],
      [StatusID |-> 4, StatusName |-> "No Show"] }

SampleDoctors ==
    { [DoctorID |-> 1, UserID |-> 2, SpecializationID |-> 1, DepartmentID |-> 1,
       LicenseNumber |-> "MD12345", YearsOfExperience |-> 5, IsActive |-> 1] }

(***************************************************************************)
(* Patients: the INSERT of save_patient with trigger trg_GeneratePatientCode*)
(***************************************************************************)
\* 'PAT-' || substr('0000' || NEW.PatientID, -4, 4)
PatientCodeOf(PatientID) ==
    <<"P", "A", "T", "-">> \o substr(<<"0", "0", "0", "0">> \o Str(PatientID), -4, 4)

\* UNIQUE on PatientCode: no two rows with the same non-NULL code
PatientCodeUnique(table) ==
    \A r1, r2 \in table :
        (r1.PatientCode = r2.PatientCode /\ r1.PatientCode # NULL)
            => r1.PatientID = r2.PatientID

\* the trigger's UPDATE Patients SET PatientCode = ... WHERE PatientID = NEW.PatientID
trg_GeneratePatientCode(table, NewPatientID) ==
    { IF r.PatientID = NewPatientID
        THEN [r EXCEPT !.PatientCode = PatientCodeOf(NewPatientID)]
        ELSE r : r \in table }

\* a faulty INSERT: the code is assigned by a second statement, so that when
\* it fails the row of the first stays, without a code
InsertPatient_KeepUncoded(table, seq, FirstName) ==
    LET id       == seq + 1
        inserted == table \cup { [PatientID |-> id, PatientCode |-> NULL,
                                  FirstName |-> FirstName, IsActive |-> 1] }
        coded    == trg_GeneratePatientCode(inserted, id)
    IN  IF PatientCodeUnique(coded)
          THEN [ok |-> TRUE, table |-> coded, seq |-> id]
          ELSE [ok |-> FALSE, table |-> inserted, seq |-> id]

\* a faulty INSERT: the UNIQUE constraint on the code counts the active
\* rows only
InsertPatient_ActiveOnly(table, seq, FirstName) ==
    LET id       == seq + 1
        inserted == table \cup { [PatientID |-> id, PatientCode |-> NULL,
                                  FirstName |-> FirstName, IsActive |-> 1] }
        coded    == trg_GeneratePatientCode(inserted, id)
    IN  IF PatientCodeUnique({ r \in coded : r.IsActive = 1 })
          THEN [ok |-> TRUE, table |-> coded, seq |-> id]
          ELSE [ok |-> FALSE, table |-> table, seq |-> seq]

\* INSERT INTO Patients (FirstName, ...): the row gets the next AUTOINCREMENT
\* id, a NULL code and IsActive = 1; the trigger then runs inside the same
\* statement; a constraint violation in either aborts the statement.
InsertPatient(table, seq, FirstName) ==
    LET id       == seq + 1
        inserted == table \cup { [PatientID |-> id, PatientCode |-> NULL,
                                  FirstName |-> FirstName, IsActive |-> 1] }
        coded    == trg_GeneratePatientCode(inserted, id)
    IN  IF PatientCodeUnique(coded)
          THEN [ok |-> TRUE, table |-> coded, seq |-> id]
          ELSE [ok |-> FALSE, table |-> table, seq |-> seq]

\* UPDATE Patients SET FirstName=?, ..., ModifiedDate=... WHERE PatientID=?
UpdatePatient(table, PatientID, FirstName) ==
    { IF r.PatientID = PatientID THEN [r EXCEPT !.FirstName = FirstName] ELSE r
        : r \in table }

\* a faulty delete: the row is removed
DeactivatePatient_Remove(table, PatientID) ==
    { r \in table : r.PatientID # PatientID }

\* UPDATE Patients SET IsActive=0, ModifiedDate=... WHERE PatientID=?
DeactivatePatient(table, PatientID) ==
    { IF r.PatientID = PatientID THEN [r EXCEPT !.IsActive = 0] ELSE r
        : r \in table }

(***************************************************************************)
(* Appointments: the statements of save_appointment and cancel_appointment *)
(***************************************************************************)
\* UNIQUE (DoctorID, AppointmentDate, AppointmentTime)
SameSlot(r1, r2) ==
    /\ r1.DoctorID = r2.DoctorID
    /\ r1.AppointmentDate = r2.AppointmentDate
    /\ r1.AppointmentTime = r2.AppointmentTime

SlotUnique(table) ==
    \A r1, r2 \in table : SameSlot(r1, r2) => r1.AppointmentID = r2.AppointmentID

\* the columns save_appointment binds, from the form
AppointmentRow(id, form) ==
    [AppointmentID |-> id,
     PatientID |-> IdOf(form.patient), DoctorID |-> IdOf(form.doctor),
     AppointmentDate |-> form.date, AppointmentTime |-> form.time,
     StatusID |-> IdOf(form.status), Notes |-> form.notes]

\* a faulty INSERT: the table declared without its UNIQUE constraint
InsertAppointment_NoUnique(table, seq, form) ==
    [ok |-> TRUE, table |-> table \cup { AppointmentRow(seq + 1, form) }, seq |-> seq + 1]

\* a faulty INSERT: the UNIQUE constraint counts the Scheduled rows only
InsertAppointment_ScheduledOnly(table, seq, form) ==
    LET id == seq + 1
    IN  IF SlotUnique({ r \in table : r.StatusID = 1 } \cup { AppointmentRow(id, form) })
          THEN [ok |-> TRUE, table |-> table \cup { AppointmentRow(id, form) }, seq |-> id]
          ELSE [ok |-> FALSE, table |-> table, seq |-> seq]

\* INSERT INTO Appointments (PatientID, DoctorID, AppointmentDate, ...)
\* No PRAGMA foreign_keys is issued, so the FOREIGN KEY clauses are not
\* enforced; the UNIQUE constraint is.
InsertAppointment(table, seq, form) ==
    LET id       == seq + 1
        inserted == table \cup { AppointmentRow(id, form) }
    IN  IF SlotUnique(inserted)
          THEN [ok |-> TRUE, table |-> inserted, seq |-> id]
          ELSE [ok |-> FALSE, table |-> table, seq |-> seq]

\* a faulty UPDATE: reports success and writes nothing
UpdateAppointment_NoWrite(table, seq, id, form) ==
    [ok |-> TRUE, table |-> table, seq |-> seq]

\* a faulty UPDATE: the uniqueness check counts the row being updated
UpdateAppointment_SelfConflict(table, seq, id, form) ==
    LET updated == { IF r.AppointmentID = id THEN AppointmentRow(id, form) ELSE r
                       : r \in table }
    IN  IF \E r \in table : SameSlot(r, AppointmentRow(id, form))
          THEN [ok |-> FALSE, table |-> table, seq |-> seq]
          ELSE [ok |-> TRUE, table |-> updated, seq |-> seq]

\* a faulty UPDATE: a Completed or Cancelled appointment keeps its status
UpdateAppointment_FinalStatus(table, seq, id, form) ==
    LET updated == { IF r.AppointmentID = id THEN AppointmentRow(id, form) ELSE r
                       : r \in table }
    IN  IF \/ ~SlotUnique(updated)
           \/ \E r \in table : /\ r.AppointmentID = id
                                /\ r.StatusID \in {2, 3}
                                /\ r.StatusID # IdOf(form.status)
          THEN [ok |-> FALSE, table |-> table, seq |-> seq]
          ELSE [ok |-> TRUE, table |-> updated, seq |-> seq]

\* UPDATE Appointments SET PatientID=?, ... WHERE AppointmentID=?
UpdateAppointment(table, seq, id, form) ==
    LET updated == { IF r.AppointmentID = id THEN AppointmentRow(id, form) ELSE r
                       : r \in table }
    IN  IF SlotUnique(updated)
          THEN [ok |-> TRUE, table |-> updated, seq |-> seq]
          ELSE [ok |-> FALSE, table |-> table, seq |-> seq]

\* a faulty DELETE: the row stays, with status Cancelled
DeleteAppointment_Soft(table, id) ==
    { IF r.AppointmentID = id THEN [r EXCEPT !.StatusID = 3] ELSE r : r \in table }

\* DELETE FROM Appointments WHERE AppointmentID=?
DeleteAppointment(table, id) == { r \in table : r.AppointmentID # id }

(***************************************************************************)
(* The queries behind the lists and the comboboxes.                        *)
(***************************************************************************)
\* PatientManagementFrame.load_patients: ... FROM Patients WHERE IsActive = 1
PatientList == { r.PatientID : r \in { p \in Patients : p.IsActive = 1 } }

\* PatientManagementFrame.search_patients: ... WHERE IsActive = 1 AND
\* (FirstName LIKE '%term%' OR LastName LIKE ... OR PatientCode LIKE ...).
\* The terms are "" and whole first names, none of which is part of another
\* name or of a code: '%term%' then matches every row for "", and otherwise
\* the rows with that first name.
search_patients(term) ==
    { r.PatientID : r \in { p \in Patients : /\ p.IsActive = 1
                                              /\ (term = "" \/ p.FirstName = term) } }

\* AppointmentManagementFrame.load_patients (patient_combo)
PatientChoices == { Choice(r.PatientID) : r \in { p \in Patients : p.IsActive = 1 } }

\* AppointmentManagementFrame.load_doctors (doctor_combo): Doctors JOIN Users
DoctorChoices ==
    { Choice(d.DoctorID) :
        d \in { x \in Doctors : x.IsActive = 1
                                /\ \E u \in Users : u.UserID = x.UserID } }

\* AppointmentManagementFrame.load_statuses (status_combo)
StatusChoices == { Choice(s.StatusID) : s \in AppointmentStatuses }

\* AppointmentManagementFrame.load_appointments: Appointments JOIN Patients
\* JOIN Doctors JOIN Users JOIN AppointmentStatuses (no IsActive filter)
AppointmentList ==
    { a.AppointmentID :
        a \in { x \in Appointments :
                  /\ \E p \in Patients : p.PatientID = x.PatientID
                  /\ \E d \in Doctors : d.DoctorID = x.DoctorID
                                        /\ \E u \in Users : u.UserID = d.UserID
                  /\ \E s \in AppointmentStatuses : s.StatusID = x.StatusID } }

(***************************************************************************)
(* The state after construction.  ClinicDatabase() opens the file          *)
(* clinic.db: insert_sample_data returns at once when Users has rows, so   *)
(* the store is the one the file holds, with the sample rows in it.        *)
(* MainApplication() then shows the login frame.                           *)
(***************************************************************************)
\* a file with no patient yet
FreshPatients == [table |-> {}, seq |-> 0]

\* a file of a clinic that has issued 9999 patient ids (of its rows the model
\* keeps patient 1)
LongUsedPatients ==
    [table |-> { [PatientID |-> 1, PatientCode |-> PatientCodeOf(1),
                  FirstName |-> "Ann", IsActive |-> 1] },
     seq |-> 9999]

\* a file in which the patient form has added two patients
TwoPatients ==
    [table |-> InsertPatient(InsertPatient({}, 0, "Ann").table, 1, "Bob").table,
     seq |-> 2]

NoRole == "None"

\* AppointmentManagementFrame.new_appointment: every variable "", status "1:Scheduled"
NewForm ==
    [patient |-> Blank, doctor |-> Blank, date |-> "", time |-> "",
     status |-> Choice(1), notes |-> ""]

NoCombos == [patient |-> {}, doctor |-> {}, status |-> {}]

IdleSessions == <<>>
IdlePending  == [Appointments |-> {}, seq |-> 0]
IdleScript   == [step |-> "off"]

\* BillingManagementFrame.new_bill: every variable "", status "Unpaid",
\* method "Cash"
NewBill ==
    [appointment |-> Blank, total |-> <<>>, status |-> "Unpaid",
     method |-> "Cash", paid |-> <<>>]

\* DoctorManagementFrame.new_doctor: every variable ""
NewDoctor ==
    [user |-> Blank, specialization |-> Blank, department |-> Blank,
     license |-> "", experience |-> <<>>]

\* no export has been written
NoDocument == <<>>

\* the tables and counters, as the program's connection reads them
Stored ==
    [Users |-> Users, Patients |-> Patients, Doctors |-> Doctors,
     Appointments |-> Appointments, Bills |-> Bills, BillItems |-> BillItems,
     MedicalTests |-> MedicalTests,
     sqlite_sequence |-> sqlite_sequence]

\* the program starts on the file `file`: nothing is uncommitted
InitFile(file) ==
    /\ Users = file.Users
    /\ Patients = file.Patients
    /\ Doctors = file.Doctors
    /\ Appointments = file.Appointments
    /\ Bills = file.Bills
    /\ BillItems = file.BillItems
    /\ MedicalTests = file.MedicalTests
    /\ sqlite_sequence = file.sqlite_sequence
    /\ disk = file
    /\ document = NoDocument

\* a file holding the sample rows and the patients of `start`
FileOf(start) ==
    [Users |-> SampleUsers, Patients |-> start.table, Doctors |-> SampleDoctors,
     Appointments |-> {}, Bills |-> {}, BillItems |-> {}, MedicalTests |-> {},
     sqlite_sequence |-> [Patients |-> start.seq, Doctors |-> 1, Appointments |-> 0,
                          Bills |-> 0, BillItems |-> 0]]

InitStore(start) == InitFile(FileOf(start))

\* the values of screen with no main interface: the login frame, the program
\* not yet started, the process ended by an exception nothing caught
NoInterface == {"login", "not started", "terminated"}

InitUI ==
    /\ screen = "login"
    /\ user_id = None
    /\ user_role = NoRole
    /\ current_patient = None
    /\ current_appointment = None
    /\ vars = NewForm
    /\ combos = NoCombos
    /\ msg = "none"
    /\ current_bill = None
    /\ bill_vars = NewBill
    /\ appointment_combo = {}
    /\ dialog = None
    /\ current_doctor = None
    /\ doctor_vars = NewDoctor

InitIdle ==
    /\ sessions = IdleSessions
    /\ lock = None
    /\ pending = IdlePending
    /\ script = IdleScript

Init == InitStore(FreshPatients) /\ InitUI /\ InitIdle

(***************************************************************************)
(* LoginFrame and MainApplication.                                         *)
(***************************************************************************)
\* MainApplication.show_dashboard, reached from on_login_success through
\* show_main_interface, and from the sidebar
\* self.db.conn.commit(): what the connection has written becomes durable
conn_commit == disk' = Stored'

\* clear_content destroys the frame shown: no billing frame, no item dialog
no_billing_frame ==
    /\ current_bill' = None
    /\ bill_vars' = NewBill
    /\ appointment_combo' = {}
    /\ dialog' = None

\* ... and no doctor frame
no_doctor_frame ==
    /\ current_doctor' = None
    /\ doctor_vars' = NewDoctor

show_dashboard ==
    /\ screen' = "dashboard"
    /\ current_patient' = None
    /\ current_appointment' = None
    /\ vars' = NewForm
    /\ combos' = NoCombos
    /\ msg' = "none"
    /\ no_billing_frame
    /\ no_doctor_frame

\* a faulty lookup: the query without its IsActive = 1
login_result_AnyUser(users, username, password) ==
    { u \in { x \in users : x.Username = username } :
        u.PasswordHash = hash_password(password) }

\* the row authenticate accepts: SELECT ... FROM Users WHERE Username = ? AND
\* IsActive = 1 (Username is UNIQUE, fetchone() gets the row or None), kept
\* when result[1] == hash_password(password)
login_result(users, username, password) ==
    { u \in { x \in users : x.Username = username /\ x.IsActive = 1 } :
        u.PasswordHash = hash_password(password) }

authenticate(username, password) ==
    /\ screen = "login"
    /\ IF username = "" \/ password = ""
         THEN /\ msg' = "Please enter both username and password"
              /\ UNCHANGED <<screen, user_id, user_role, current_patient,
                             current_appointment, vars, combos, vars_bill, vars_doctor>>
         ELSE LET accepted == login_result(Users, username, password)
              IN  IF accepted # {}
                    THEN /\ \E u \in accepted :
                              /\ user_id' = u.UserID
                              /\ user_role' = u.Role
                         /\ show_dashboard
                    ELSE /\ msg' = "Invalid credentials"
                         /\ UNCHANGED <<screen, user_id, user_role, current_patient,
                                        current_appointment, vars, combos, vars_bill, vars_doctor>>
    /\ UNCHANGED <<vars_db, vars_file>>

\* sidebar button "Dashboard"
nav_dashboard ==
    /\ screen \notin NoInterface
    /\ show_dashboard
    /\ UNCHANGED <<user_id, user_role, vars_db, vars_file>>

\* sidebar button "Logout": show_login destroys the frames and keeps user_id
show_login ==
    /\ screen \notin NoInterface
    /\ screen' = "login"
    /\ current_patient' = None
    /\ current_appointment' = None
    /\ vars' = NewForm
    /\ combos' = NoCombos
    /\ msg' = "none"
    /\ no_billing_frame
    /\ no_doctor_frame
    /\ UNCHANGED <<user_id, user_role, vars_db, vars_file>>

\* sidebar button "Patients": PatientManagementFrame.__init__ ends with
\* load_patients() and new_patient()
show_patient_management ==
    /\ screen \notin NoInterface
    /\ screen' = "patients"
    /\ current_patient' = None
    /\ current_appointment' = None
    /\ vars' = NewForm
    /\ combos' = NoCombos
    /\ msg' = "none"
    /\ no_billing_frame
    /\ no_doctor_frame
    /\ UNCHANGED <<user_id, user_role, vars_db, vars_file>>

\* sidebar button "Appointments": AppointmentManagementFrame.__init__ fills
\* the three comboboxes and ends with load_appointments() and new_appointment()
show_appointment_management ==
    /\ screen \notin NoInterface
    /\ screen' = "appointments"
    /\ current_patient' = None
    /\ current_appointment' = None
    /\ vars' = NewForm
    /\ combos' = [patient |-> PatientChoices, doctor |-> DoctorChoices,
                  status |-> StatusChoices]
    /\ msg' = "none"
    /\ no_billing_frame
    /\ no_doctor_frame
    /\ UNCHANGED <<user_id, user_role, vars_db, vars_file>>

(***************************************************************************)
(* PatientManagementFrame.                                                 *)
(***************************************************************************)
new_patient ==
    /\ screen = "patients"
    /\ current_patient' = None
    /\ msg' = "none"
    /\ UNCHANGED <<screen, user_id, user_role, current_appointment, vars, combos,
                   vars_db, vars_bill, vars_doctor, vars_file>>

\* the list shows the active patients; the row is read back by its id
on_patient_select(PatientID) ==
    /\ screen = "patients"
    /\ PatientID \in PatientList
    /\ current_patient' = PatientID
    /\ msg' = "none"
    /\ UNCHANGED <<screen, user_id, user_role, current_appointment, vars, combos,
                   vars_db, vars_bill, vars_doctor, vars_file>>

\* PatientManagementFrame.validate_form (the fields the model keeps)
patient_validate_form(first_name) == first_name # ""

\* what save_patient does with the form: the message box it shows and the
\* table it leaves committed (nothing is committed when the statement raises)
save_patient_outcome(first_name) ==
    IF ~patient_validate_form(first_name)
      THEN [saved |-> FALSE, msg |-> "Validation Error",
            table |-> Patients, seq |-> sqlite_sequence.Patients]
      ELSE IF current_patient # None
        THEN [saved |-> TRUE, msg |-> "Patient updated successfully",
              table |-> UpdatePatient(Patients, current_patient, first_name),
              seq   |-> sqlite_sequence.Patients]
        ELSE LET r == InsertPatient(Patients, sqlite_sequence.Patients, first_name)
             IN  [saved |-> r.ok,
                  msg   |-> IF r.ok THEN "Patient added successfully"
                                    ELSE UniqueFailed,
                  table |-> r.table, seq |-> r.seq]

save_patient(first_name) ==
    /\ screen = "patients"
    /\ LET out == save_patient_outcome(first_name)
       IN  /\ (out.saved /\ current_patient = None)
                 => Cardinality(Patients) < MaxPatients
           /\ Patients' = out.table
           /\ sqlite_sequence' = [sqlite_sequence EXCEPT !.Patients = out.seq]
           /\ msg' = out.msg
           /\ current_patient' = IF out.saved THEN None ELSE current_patient
    /\ UNCHANGED <<Users, Doctors, Appointments, Bills, BillItems, MedicalTests, screen, user_id,
                   user_role, current_appointment, vars, combos, vars_bill, vars_doctor, document>>
    /\ IF save_patient_outcome(first_name).saved THEN conn_commit ELSE UNCHANGED disk

delete_patient(confirm) ==
    /\ screen = "patients"
    /\ IF current_patient = None
         THEN /\ msg' = "No patient selected"
              /\ UNCHANGED <<Patients, current_patient>>
         ELSE IF confirm
           THEN /\ Patients' = DeactivatePatient(Patients, current_patient)
                /\ msg' = "Patient deleted"
                /\ current_patient' = None
           ELSE /\ msg' = "none"
                /\ UNCHANGED <<Patients, current_patient>>
    /\ UNCHANGED <<Users, Doctors, Appointments, Bills, BillItems, MedicalTests, sqlite_sequence,
                   screen, user_id, user_role, current_appointment, vars, combos,
                   vars_bill, vars_doctor, document>>
    /\ IF current_patient # None /\ confirm THEN conn_commit ELSE UNCHANGED disk

(***************************************************************************)
(* AppointmentManagementFrame.                                             *)
(***************************************************************************)
new_appointment ==
    /\ screen = "appointments"
    /\ current_appointment' = None
    /\ vars' = NewForm
    /\ msg' = "none"
    /\ UNCHANGED <<screen, user_id, user_role, current_patient, combos,
                   vars_db, vars_bill, vars_doctor, vars_file>>

\* the form variables on_appointment_select sets from the row it read
FormOfRow(appt) ==
    [patient |-> Choice(appt.PatientID), doctor |-> Choice(appt.DoctorID),
     date |-> appt.AppointmentDate, time |-> appt.AppointmentTime,
     status |-> Choice(appt.StatusID), notes |-> appt.Notes]

on_appointment_select(AppointmentID) ==
    /\ screen = "appointments"
    /\ AppointmentID \in AppointmentList
    /\ \E appt \in Appointments :
         /\ appt.AppointmentID = AppointmentID
         /\ current_appointment' = appt.AppointmentID
         /\ vars' = FormOfRow(appt)
    /\ msg' = "none"
    /\ UNCHANGED <<screen, user_id, user_role, current_patient, combos,
                   vars_db, vars_bill, vars_doctor, vars_file>>

\* The forms the user can have on screen when pressing Save: the patient,
\* doctor and status boxes are read-only comboboxes, which hold the value a
\* handler set or one of their listed values; date, time and notes are typed.
Forms ==
    [patient : {vars.patient} \cup combos.patient,
     doctor  : {vars.doctor} \cup combos.doctor,
     date    : Dates,
     time    : Times,
     status  : {vars.status} \cup combos.status,
     notes   : NotesTexts]

\* AppointmentManagementFrame.validate_form
appointment_validate_form(form) ==
    /\ form.patient # Blank
    /\ form.doctor # Blank
    /\ form.date # ""
    /\ form.time # ""

\* the statement save_appointment executes for the form
SaveStatement(form) ==
    IF current_appointment # None
      THEN UpdateAppointment(Appointments, sqlite_sequence.Appointments,
                             current_appointment, form)
      ELSE InsertAppointment(Appointments, sqlite_sequence.Appointments, form)

\* what save_appointment does with the form: the message box it shows and the
\* table it leaves committed (nothing is committed when the statement raises)
save_appointment_outcome(form) ==
    IF ~appointment_validate_form(form)
      THEN [saved |-> FALSE, msg |-> "Validation Error",
            table |-> Appointments, seq |-> sqlite_sequence.Appointments]
      ELSE LET r == SaveStatement(form)
           IN  [saved |-> r.ok,
                msg   |-> IF ~r.ok THEN UniqueFailed
                          ELSE IF current_appointment # None
                                 THEN "Appointment updated successfully"
                                 ELSE "Appointment added successfully",
                table |-> r.table, seq |-> r.seq]

save_appointment(form) ==
    /\ screen = "appointments"
    /\ form \in Forms
    /\ LET out == save_appointment_outcome(form)
       IN  /\ (out.saved /\ current_appointment = None)
                 => sqlite_sequence.Appointments < MaxAppointments
           /\ Appointments' = out.table
           /\ sqlite_sequence' = [sqlite_sequence EXCEPT !.Appointments = out.seq]
           /\ msg' = out.msg
           /\ IF out.saved
                THEN /\ current_appointment' = None
                     /\ vars' = NewForm
                ELSE UNCHANGED <<current_appointment, vars>>
    /\ UNCHANGED <<Users, Patients, Doctors, Bills, BillItems, MedicalTests, screen, user_id,
                   user_role, current_patient, combos, vars_bill, vars_doctor, document>>
    /\ IF save_appointment_outcome(form).saved THEN conn_commit ELSE UNCHANGED disk

cancel_appointment(confirm) ==
    /\ screen = "appointments"
    /\ IF current_appointment = None
         THEN /\ msg' = "No appointment selected"
              /\ UNCHANGED <<Appointments, current_appointment, vars>>
         ELSE IF confirm
           THEN /\ Appointments' = DeleteAppointment(Appointments, current_appointment)
                /\ msg' = "Appointment cancelled"
                /\ current_appointment' = None
                /\ vars' = NewForm
           ELSE /\ msg' = "none"
                /\ UNCHANGED <<Appointments, current_appointment, vars>>
    /\ UNCHANGED <<Users, Patients, Doctors, Bills, BillItems, MedicalTests, sqlite_sequence,
                   screen, user_id, user_role, current_patient, combos, vars_bill, vars_doctor,
                   document>>
    /\ IF current_appointment # None /\ confirm THEN conn_commit ELSE UNCHANGED disk

(***************************************************************************)
(* The program: one handler at a time.  Each specification enumerates the  *)
(* inputs of the handlers from its own sets.                               *)
(***************************************************************************)
Login ==
    \E username \in Usernames, password \in Passwords :
        authenticate(username, password)

\* a handler of the single-user program leaves the other callers and the
\* scripted user alone
Alone == UNCHANGED <<vars_con, script>>

PatientHandlers(names) ==
    \/ new_patient /\ Alone
    \/ \E PatientID \in PatientList : on_patient_select(PatientID) /\ Alone
    \/ \E first_name \in names : save_patient(first_name) /\ Alone
    \/ \E confirm \in BOOLEAN : delete_patient(confirm) /\ Alone

AppointmentHandlers(statuses, notes) ==
    \/ new_appointment /\ Alone
    \/ \E AppointmentID \in AppointmentList :
         on_appointment_select(AppointmentID) /\ Alone
    \/ \E form \in { f \in Forms : f.status \in statuses /\ f.notes \in notes } :
         save_appointment(form) /\ Alone
    \/ \E confirm \in BOOLEAN : cancel_appointment(confirm) /\ Alone

\* Spec: the whole program.  The user types one first name, leaves the notes
\* empty and picks the status among Scheduled and Cancelled.
Next ==
    \/ Login /\ Alone
    \/ nav_dashboard /\ Alone
    \/ show_login /\ Alone
    \/ show_patient_management /\ Alone
    \/ show_appointment_management /\ Alone
    \/ PatientHandlers({"", "Ann"})
    \/ AppointmentHandlers({Choice(1), Choice(3)}, {""})

Spec == Init /\ [][Next]_allvars

\* SpecForm: the appointment form with every status and the notes, on a store
\* with two patients.
InitForm == InitStore(TwoPatients) /\ InitUI /\ InitIdle

NextForm ==
    \/ Login /\ Alone
    \/ show_login /\ Alone
    \/ show_appointment_management /\ Alone
    \/ AppointmentHandlers(StatusChoices, NotesTexts)

SpecForm == InitForm /\ [][NextForm]_allvars

\* SpecPatients: the patient form with every first name, on a fresh store and
\* on a long-used one.
InitPatients ==
    /\ \E start \in {FreshPatients, LongUsedPatients} : InitStore(start)
    /\ InitUI
    /\ InitIdle

NextPatients ==
    \/ Login /\ Alone
    \/ show_login /\ Alone
    \/ show_patient_management /\ Alone
    \/ PatientHandlers(FirstNames)

SpecPatients == InitPatients /\ [][NextPatients]_allvars

(***************************************************************************)
(* Two running copies of the program on the same clinic.db, each with its  *)
(* own connection, each booking one appointment with save_appointment.     *)
(* cursor.execute opens the connection's transaction and takes the store's *)
(* write lock for the INSERT; conn.commit() makes the row durable and      *)
(* releases the lock.  A statement that raises leaves the transaction open *)
(* (the handler's except branch does not roll back), so the lock is kept.  *)
(* While another connection holds the lock, a statement waits for it, up   *)
(* to the connection's busy timeout, after which it raises                 *)
(* sqlite3.OperationalError "database is locked".                          *)
(***************************************************************************)
Callers == {1, 2}

Locked == "Database error: database is locked"

\* complete forms of a new appointment (status as new_appointment sets it)
BookingForms ==
    { f \in [patient : PatientChoices, doctor : DoctorChoices,
             date : Dates, time : Times, status : {Choice(1)}, notes : {""}] :
        appointment_validate_form(f) }

\* the tables as connection c reads them: its own uncommitted changes included
ViewOf(c) ==
    IF lock = c THEN pending
    ELSE [Appointments |-> Appointments, seq |-> sqlite_sequence.Appointments]

InitConc ==
    /\ InitStore(TwoPatients)
    /\ InitUI
    /\ sessions = [c \in Callers |-> [pc |-> "idle", form |-> NewForm, result |-> "none"]]
    /\ lock = None
    /\ pending = IdlePending
    /\ script = IdleScript

\* Save pressed with a complete form: validate_form passes
press_save(c, form) ==
    /\ sessions[c].pc = "idle"
    /\ form \in BookingForms
    /\ sessions' = [sessions EXCEPT ![c] = [pc |-> "validated", form |-> form,
                                             result |-> "none"]]
    /\ UNCHANGED <<vars_db, vars_ui, vars_bill, vars_doctor, vars_file, lock, pending, script>>

\* cursor.execute(INSERT ...) once the write lock is free (or already held)
execute_insert(c) ==
    /\ sessions[c].pc = "validated"
    /\ lock \in {None, c}
    /\ LET r == InsertAppointment(ViewOf(c).Appointments, ViewOf(c).seq,
                                  sessions[c].form)
       IN  /\ lock' = c
           /\ pending' = [Appointments |-> r.table, seq |-> r.seq]
           /\ sessions' = [sessions EXCEPT ![c] =
                             IF r.ok THEN [@ EXCEPT !.pc = "executed"]
                                     ELSE [@ EXCEPT !.pc = "done", !.result = UniqueFailed]]
    /\ UNCHANGED <<vars_db, vars_ui, vars_bill, vars_doctor, vars_file, script>>

\* cursor.execute(INSERT ...) gives up waiting for the write lock
execute_busy(c) ==
    /\ sessions[c].pc = "validated"
    /\ lock \notin {None, c}
    /\ sessions' = [sessions EXCEPT ![c] = [@ EXCEPT !.pc = "done", !.result = Locked]]
    /\ UNCHANGED <<vars_db, vars_ui, vars_bill, vars_doctor, vars_file, lock, pending, script>>

\* self.db.conn.commit() and the success box
commit(c) ==
    /\ sessions[c].pc = "executed"
    /\ lock = c
    /\ Appointments' = pending.Appointments
    /\ sqlite_sequence' = [sqlite_sequence EXCEPT !.Appointments = pending.seq]
    /\ lock' = None
    /\ sessions' = [sessions EXCEPT ![c] =
                      [@ EXCEPT !.pc = "done", !.result = "Appointment added successfully"]]
    /\ UNCHANGED <<Users, Patients, Doctors, Bills, BillItems, MedicalTests, vars_ui, vars_bill, vars_doctor,
                   document, pending, script>>
    /\ conn_commit

NextConc ==
    \E c \in Callers :
        \/ \E form \in BookingForms : press_save(c, form)
        \/ execute_insert(c)
        \/ execute_busy(c)
        \/ commit(c)

SpecConc == InitConc /\ [][NextConc]_allvars

(***************************************************************************)
(* The booking scenario, run on the program from a fresh store: the user   *)
(* logs in, adds patients A and B, opens the appointment form, books the   *)
(* doctor at slot S for A, tries the same slot for B, selects A's          *)
(* appointment and moves it to slot S2, then books S for B.  Each step is  *)
(* a handler of the program with the inputs the scenario fixes.            *)
(***************************************************************************)
ScenarioDoctor == Choice(1)

\* the form of a booking for patient `PatientID` at time `time`
ScenarioForm(PatientID, time, notes) ==
    [patient |-> Choice(PatientID), doctor |-> ScenarioDoctor,
     date |-> script.date, time |-> time, status |-> Choice(1), notes |-> notes]

InitScenario ==
    /\ InitStore(FreshPatients)
    /\ InitUI
    /\ sessions = IdleSessions
    /\ lock = None
    /\ pending = IdlePending
    /\ \E username \in {"admin", "faryaln"}, nameA, nameB \in FirstNames \ {""},
          date \in Dates \ {""}, S, S2 \in Times \ {""}, notes \in NotesTexts :
         /\ S # S2
         /\ script = [step |-> "login", username |-> username,
                      nameA |-> nameA, nameB |-> nameB, A |-> None, B |-> None,
                      date |-> date, S |-> S, S2 |-> S2, notes |-> notes,
                      first |-> None]

Step(from, to) ==
    /\ script.step = from
    /\ script' = [script EXCEPT !.step = to]

ScenarioLogin ==
    /\ Step("login", "patients")
    /\ \E u \in Users :
         /\ u.Username = script.username
         /\ \E password \in Passwords : /\ u.PasswordHash = hash_password(password)
                                        /\ authenticate(script.username, password)

ScenarioOpenPatients ==
    /\ Step("patients", "addA")
    /\ show_patient_management

ScenarioAddA ==
    /\ script.step = "addA"
    /\ save_patient(script.nameA)
    /\ script' = [script EXCEPT !.step = "addB", !.A = sqlite_sequence'.Patients]

ScenarioAddB ==
    /\ script.step = "addB"
    /\ save_patient(script.nameB)
    /\ script' = [script EXCEPT !.step = "appointments", !.B = sqlite_sequence'.Patients]

ScenarioOpenAppointments ==
    /\ Step("appointments", "bookA")
    /\ show_appointment_management

ScenarioBookA ==
    /\ script.step = "bookA"
    /\ save_appointment(ScenarioForm(script.A, script.S, script.notes))
    /\ script' = [script EXCEPT !.step = "bookB", !.first = sqlite_sequence'.Appointments]

ScenarioBookB ==
    /\ Step("bookB", "selectA")
    /\ save_appointment(ScenarioForm(script.B, script.S, ""))

ScenarioSelectA ==
    /\ Step("selectA", "moveA")
    /\ on_appointment_select(script.first)

ScenarioMoveA ==
    /\ Step("moveA", "newB")
    /\ save_appointment([vars EXCEPT !.time = script.S2])

ScenarioBookBAgain ==
    /\ Step("newB", "done")
    /\ save_appointment(ScenarioForm(script.B, script.S, ""))

NextScenario ==
    \/ ScenarioLogin /\ UNCHANGED vars_con
    \/ ScenarioOpenPatients /\ UNCHANGED vars_con
    \/ ScenarioAddA /\ UNCHANGED vars_con
    \/ ScenarioAddB /\ UNCHANGED vars_con
    \/ ScenarioOpenAppointments /\ UNCHANGED vars_con
    \/ ScenarioBookA /\ UNCHANGED vars_con
    \/ ScenarioBookB /\ UNCHANGED vars_con
    \/ ScenarioSelectA /\ UNCHANGED vars_con
    \/ ScenarioMoveA /\ UNCHANGED vars_con
    \/ ScenarioBookBAgain /\ UNCHANGED vars_con

SpecScenario == InitScenario /\ [][NextScenario]_allvars

(***************************************************************************)
(* Billing: the Bills and BillItems tables, BillingManagementFrame and     *)
(* BillItemDialog.  An amount is typed as text and read with float(); the  *)
(* model keeps whole amounts, which the DECIMAL(10,2) columns (NUMERIC     *)
(* affinity) store as integers and on_bill_select shows back with str().   *)
(***************************************************************************)
\* bill ids the store may issue
MaxBills == 2
\* bill item ids the store may issue
MaxBillItems == 2

PaymentStatuses == {"Unpaid", "PartiallyPaid", "Paid"}
PaymentMethods  == {"Cash", "Credit Card", "Bank Transfer"}

\* what the user types in the Total Amount and Paid Amount entries
TotalTexts == { <<>>, <<"a">>, <<"-", "5", "0">>, <<"1", "0", "0">> }
PaidTexts  == { <<>>, <<"4", "0">>, <<"1", "5", "0">>, <<"-", "1", "0">> }

\* what the user enters in the item dialog
ServiceTypes  == {"", "Consultation"}
Descriptions  == {"", "visit"}
QuantityTexts == { <<>>, <<"0">>, <<"2">> }
PriceTexts    == { <<"-", "5">>, <<"0">>, <<"1", "0">> }

IsDigits(text) ==
    /\ text # <<>>
    /\ \A i \in 1..Len(text) : \E d \in 0..9 : DigitChar(d) = text[i]

RECURSIVE DigitsValue(_)
DigitsValue(text) ==
    IF text = <<>> THEN 0
    ELSE DigitsValue(SubSeq(text, 1, Len(text) - 1)) * 10
            + (CHOOSE d \in 0..9 : DigitChar(d) = text[Len(text)])

\* Python float(text) on the texts above: an optional sign and digits give
\* the number, anything else (the empty text too) raises ValueError
float(text) ==
    IF IsDigits(text) THEN [ok |-> TRUE, value |-> DigitsValue(text)]
    ELSE IF text # <<>> /\ text[1] = "-" /\ IsDigits(Tail(text))
      THEN [ok |-> TRUE, value |-> 0 - DigitsValue(Tail(text))]
      ELSE [ok |-> FALSE, value |-> 0]

\* Python int(text): on these texts as float(text)
int(text) == float(text)

\* Python str(n) of a stored whole amount
str(n) == IF n < 0 THEN <<"-">> \o Str(0 - n) ELSE Str(n)

\* the columns save_bill binds: float(total), float(paid) or 0.0 when the
\* Paid Amount entry is empty
BillRow(id, form, CreatedBy) ==
    [BillID |-> id, AppointmentID |-> IdOf(form.appointment),
     TotalAmount |-> float(form.total).value,
     PaymentStatus |-> form.status, PaymentMethod |-> form.method,
     PaidAmount |-> IF form.paid = <<>> THEN 0 ELSE float(form.paid).value,
     CreatedBy |-> CreatedBy]

\* a faulty table: declared without the CHECK on PaymentStatus
BillsCheck_Any(row) == TRUE

\* CHECK (PaymentStatus IN ('Unpaid', 'PartiallyPaid', 'Paid')); the table
\* has no CHECK on its amounts
BillsCheck(row) == row.PaymentStatus \in PaymentStatuses

\* INSERT INTO Bills (AppointmentID, TotalAmount, PaymentStatus, ...)
InsertBill(table, seq, form, CreatedBy) ==
    LET row == BillRow(seq + 1, form, CreatedBy)
    IN  IF BillsCheck(row)
          THEN [ok |-> TRUE, table |-> table \cup {row}, seq |-> seq + 1]
          ELSE [ok |-> FALSE, table |-> table, seq |-> seq]

\* UPDATE Bills SET AppointmentID=?, TotalAmount=?, PaymentStatus=?,
\* PaymentMethod=?, PaidAmount=? WHERE BillID=?
UpdateBill(table, seq, id, form) ==
    LET updated == { IF r.BillID = id THEN BillRow(id, form, r.CreatedBy) ELSE r
                       : r \in table }
    IN  IF \A r \in updated : BillsCheck(r)
          THEN [ok |-> TRUE, table |-> updated, seq |-> seq]
          ELSE [ok |-> FALSE, table |-> table, seq |-> seq]

\* a faulty DELETE: the bill's items go with it
DeleteBill_Cascade(bills, items, id) ==
    [Bills |-> { r \in bills : r.BillID # id },
     BillItems |-> { i \in items : i.BillID # id }]

\* DELETE FROM Bills WHERE BillID=?  (FOREIGN KEY (BillID) of BillItems is not
\* enforced and has no ON DELETE action)
DeleteBill(bills, items, id) ==
    [Bills |-> { r \in bills : r.BillID # id }, BillItems |-> items]

\* the values add_item binds (MedicineID and TestID stay NULL: the
\* reference entry is left empty)
BillItemRow(id, bill_id, item) ==
    [BillItemID |-> id, BillID |-> bill_id, ServiceType |-> item.service_type,
     Description |-> item.description, Quantity |-> int(item.quantity).value,
     UnitPrice |-> float(item.unit_price).value]

\* CHECK (Quantity > 0), CHECK (UnitPrice >= 0)
BillItemsCheck(row) == row.Quantity > 0 /\ row.UnitPrice >= 0

\* a faulty INSERT: the item is stored twice
InsertBillItem_Twice(table, seq, bill_id, item) ==
    [ok |-> TRUE,
     table |-> table \cup { BillItemRow(seq + 1, bill_id, item),
                            BillItemRow(seq + 2, bill_id, item) },
     seq |-> seq + 2]

\* INSERT INTO BillItems (BillID, ServiceType, Description, Quantity, ...)
InsertBillItem(table, seq, bill_id, item) ==
    LET row == BillItemRow(seq + 1, bill_id, item)
    IN  IF BillItemsCheck(row)
          THEN [ok |-> TRUE, table |-> table \cup {row}, seq |-> seq + 1]
          ELSE [ok |-> FALSE, table |-> table, seq |-> seq]

\* BillingManagementFrame.load_appointments (appointment_combo):
\* Appointments JOIN Patients
BillAppointmentChoices ==
    { Choice(a.AppointmentID) :
        a \in { x \in Appointments : \E p \in Patients : p.PatientID = x.PatientID } }

\* a faulty balance: never below zero
Due_Clamped(total, paid) == IF total - paid < 0 THEN 0 ELSE total - paid

\* the Due column of load_bills: b.TotalAmount - b.PaidAmount
Due(total, paid) == total - paid

\* a faulty listing: Bills LEFT JOIN Appointments, every stored bill listed
load_bills_LeftJoin ==
    { [BillID |-> b.BillID, AppointmentID |-> b.AppointmentID,
       Total |-> b.TotalAmount, Paid |-> b.PaidAmount,
       Due |-> b.TotalAmount - b.PaidAmount,
       Status |-> b.PaymentStatus, Method |-> b.PaymentMethod] : b \in Bills }

\* BillingManagementFrame.load_bills: Bills JOIN Appointments JOIN Patients
load_bills ==
    { [BillID |-> b.BillID, AppointmentID |-> b.AppointmentID,
       Total |-> b.TotalAmount, Paid |-> b.PaidAmount,
       Due |-> Due(b.TotalAmount, b.PaidAmount),
       Status |-> b.PaymentStatus, Method |-> b.PaymentMethod] :
        b \in { x \in Bills :
                  \E a \in Appointments :
                     /\ a.AppointmentID = x.AppointmentID
                     /\ \E p \in Patients : p.PatientID = a.PatientID } }

BillList == { row.BillID : row \in load_bills }

\* sidebar button "Billing": BillingManagementFrame.__init__ fills the
\* appointment combobox and ends with load_bills() and new_bill()
show_billing ==
    /\ screen \notin NoInterface
    /\ screen' = "billing"
    /\ current_patient' = None
    /\ current_appointment' = None
    /\ vars' = NewForm
    /\ combos' = NoCombos
    /\ msg' = "none"
    /\ current_bill' = None
    /\ bill_vars' = NewBill
    /\ appointment_combo' = BillAppointmentChoices
    /\ dialog' = None
    /\ no_doctor_frame
    /\ UNCHANGED <<user_id, user_role, vars_db, vars_file>>

\* what a handler of the billing frame leaves alone
billing_frame ==
    UNCHANGED <<screen, user_id, user_role, current_patient, current_appointment,
                vars, combos, appointment_combo, Users, Patients, Doctors,
                Appointments, MedicalTests, document, vars_doctor>>

new_bill ==
    /\ screen = "billing"
    /\ current_bill' = None
    /\ bill_vars' = NewBill
    /\ msg' = "none"
    /\ billing_frame
    /\ UNCHANGED <<Bills, BillItems, sqlite_sequence, dialog, disk>>

\* the form variables on_bill_select sets from the row it read
FormOfBill(bill) ==
    [appointment |-> Choice(bill.AppointmentID), total |-> str(bill.TotalAmount),
     status |-> bill.PaymentStatus, method |-> bill.PaymentMethod,
     paid |-> str(bill.PaidAmount)]

on_bill_select(BillID) ==
    /\ screen = "billing"
    /\ BillID \in BillList
    /\ \E bill \in Bills :
         /\ bill.BillID = BillID
         /\ current_bill' = bill.BillID
         /\ bill_vars' = FormOfBill(bill)
    /\ msg' = "none"
    /\ billing_frame
    /\ UNCHANGED <<Bills, BillItems, sqlite_sequence, dialog, disk>>

\* The forms the user can have on screen when pressing Save: appointment,
\* status and method are read-only comboboxes, total and paid are typed.
BillForms ==
    [appointment : {bill_vars.appointment} \cup appointment_combo,
     total       : TotalTexts,
     status      : {bill_vars.status} \cup PaymentStatuses,
     method      : {bill_vars.method},
     paid        : PaidTexts]

\* BillingManagementFrame.validate_form
bill_validate_form(form) ==
    /\ form.appointment # Blank
    /\ form.total # <<>>

\* the statement save_bill executes for the form
SaveBillStatement(form) ==
    IF current_bill # None
      THEN UpdateBill(Bills, sqlite_sequence.Bills, current_bill, form)
      ELSE InsertBill(Bills, sqlite_sequence.Bills, form, user_id)

\* what save_bill does with the form: the message box it shows and the table
\* it leaves committed.  A text float() cannot read raises ValueError out of
\* the handler: no box, nothing written.
save_bill_outcome(form) ==
    IF ~bill_validate_form(form)
      THEN [saved |-> FALSE, msg |-> "Validation Error",
            table |-> Bills, seq |-> sqlite_sequence.Bills]
      ELSE IF ~float(form.total).ok \/ (form.paid # <<>> /\ ~float(form.paid).ok)
        THEN [saved |-> FALSE, msg |-> msg,
              table |-> Bills, seq |-> sqlite_sequence.Bills]
        ELSE LET r == SaveBillStatement(form)
             IN  [saved |-> r.ok,
                  msg   |-> IF ~r.ok THEN "Database error: CHECK constraint failed"
                            ELSE IF current_bill # None
                                   THEN "Bill updated successfully"
                                   ELSE "Bill added successfully",
                  table |-> r.table, seq |-> r.seq]

save_bill(form) ==
    /\ screen = "billing"
    /\ form \in BillForms
    /\ LET out == save_bill_outcome(form)
       IN  /\ (out.saved /\ current_bill = None) => sqlite_sequence.Bills < MaxBills
           /\ Bills' = out.table
           /\ sqlite_sequence' = [sqlite_sequence EXCEPT !.Bills = out.seq]
           /\ msg' = out.msg
           /\ IF out.saved
                THEN /\ current_bill' = None
                     /\ bill_vars' = NewBill
                ELSE UNCHANGED <<current_bill, bill_vars>>
    /\ billing_frame
    /\ UNCHANGED <<BillItems, dialog>>
    /\ IF save_bill_outcome(form).saved THEN conn_commit ELSE UNCHANGED disk

delete_bill(confirm) ==
    /\ screen = "billing"
    /\ IF current_bill = None
         THEN /\ msg' = "No bill selected"
              /\ UNCHANGED <<Bills, BillItems, current_bill, bill_vars>>
         ELSE IF confirm
           THEN /\ Bills' = DeleteBill(Bills, BillItems, current_bill).Bills
                /\ BillItems' = DeleteBill(Bills, BillItems, current_bill).BillItems
                /\ msg' = "Bill deleted"
                /\ current_bill' = None
                /\ bill_vars' = NewBill
           ELSE /\ msg' = "none"
                /\ UNCHANGED <<Bills, BillItems, current_bill, bill_vars>>
    /\ billing_frame
    /\ UNCHANGED <<sqlite_sequence, dialog>>
    /\ IF current_bill # None /\ confirm THEN conn_commit ELSE UNCHANGED disk

\* button "Add Item": opens a BillItemDialog for the current bill.  The
\* dialog takes no grab, so the frame's buttons stay usable while it is
\* open; the model keeps one dialog at a time.
add_bill_item ==
    /\ screen = "billing"
    /\ dialog = None
    /\ IF current_bill = None
         THEN /\ msg' = "No bill selected"
              /\ UNCHANGED dialog
         ELSE /\ msg' = "none"
              /\ dialog' = current_bill
    /\ billing_frame
    /\ UNCHANGED <<Bills, BillItems, sqlite_sequence, current_bill, bill_vars, disk>>

\* what the user can have entered in the dialog when pressing Add
ItemForms ==
    [service_type : ServiceTypes, description : Descriptions,
     quantity : QuantityTexts, unit_price : PriceTexts]

\* what add_item does with the entries: the message box it shows and the
\* table it leaves committed.  int() or float() on a text it cannot read
\* raises ValueError out of the handler: no box, nothing written.
add_item_outcome(item) ==
    IF ~int(item.quantity).ok \/ ~float(item.unit_price).ok
      THEN [saved |-> FALSE, msg |-> msg,
            table |-> BillItems, seq |-> sqlite_sequence.BillItems]
      ELSE IF \/ item.service_type = ""
              \/ item.description = ""
              \/ int(item.quantity).value <= 0
              \/ float(item.unit_price).value <= 0
        THEN [saved |-> FALSE,
              msg |-> "All fields except reference ID are required and must be positive",
              table |-> BillItems, seq |-> sqlite_sequence.BillItems]
        ELSE LET r == InsertBillItem(BillItems, sqlite_sequence.BillItems, dialog, item)
             IN  [saved |-> r.ok,
                  msg   |-> IF r.ok THEN "Bill item added"
                                    ELSE "Database error: CHECK constraint failed",
                  table |-> r.table, seq |-> r.seq]

\* BillItemDialog.add_item; on success the dialog is destroyed
add_item(item) ==
    /\ screen = "billing"
    /\ dialog # None
    /\ item \in ItemForms
    /\ LET out == add_item_outcome(item)
       IN  /\ out.saved => sqlite_sequence.BillItems < MaxBillItems
           /\ BillItems' = out.table
           /\ sqlite_sequence' = [sqlite_sequence EXCEPT !.BillItems = out.seq]
           /\ msg' = out.msg
           /\ dialog' = IF out.saved THEN None ELSE dialog
    /\ billing_frame
    /\ UNCHANGED <<Bills, current_bill, bill_vars>>
    /\ IF add_item_outcome(item).saved THEN conn_commit ELSE UNCHANGED disk

\* the dialog's Cancel button
dialog_cancel ==
    /\ screen = "billing"
    /\ dialog # None
    /\ dialog' = None
    /\ msg' = "none"
    /\ billing_frame
    /\ UNCHANGED <<Bills, BillItems, sqlite_sequence, current_bill, bill_vars, disk>>

BillHandlers(totals, paids, statuses) ==
    \/ new_bill /\ Alone
    \/ \E BillID \in BillList : on_bill_select(BillID) /\ Alone
    \/ \E form \in { f \in BillForms : /\ f.total \in totals
                                      /\ f.paid \in paids
                                      /\ f.status \in statuses } :
         save_bill(form) /\ Alone
    \/ \E confirm \in BOOLEAN : delete_bill(confirm) /\ Alone

ItemHandlers(quantities, prices) ==
    \/ add_bill_item /\ Alone
    \/ \E item \in { i \in ItemForms : /\ i.quantity \in quantities
                                      /\ i.unit_price \in prices } :
         add_item(item) /\ Alone
    \/ dialog_cancel /\ Alone

\* a file in which two patients have been added and one appointment booked
\* for each
BookedFile ==
    LET file  == FileOf(TwoPatients)
        booking(PatientID, time) ==
            [patient |-> Choice(PatientID), doctor |-> Choice(1),
             date |-> "2024-06-01", time |-> time, status |-> Choice(1), notes |-> ""]
        first  == InsertAppointment({}, 0, booking(1, "09:00"))
        second == InsertAppointment(first.table, first.seq, booking(2, "09:15"))
    IN  [file EXCEPT !.Appointments = second.table,
                     !.sqlite_sequence.Appointments = second.seq]

\* the admin logs in (CreatedBy of the bills is the admin's id)
LoginAdmin == \E password \in Passwords : authenticate("admin", password)

\* SpecBilling: the bill form with every total, on a store with two booked
\* appointments.
InitBilling == InitFile(BookedFile) /\ InitUI /\ InitIdle

NextBilling ==
    \/ LoginAdmin /\ Alone
    \/ show_login /\ Alone
    \/ show_billing /\ Alone
    \/ BillHandlers(TotalTexts, { <<>>, <<"1", "5", "0">> }, {"Unpaid", "Paid"})

SpecBilling == InitBilling /\ [][NextBilling]_allvars

\* SpecItems: the item dialog with every quantity and unit price; the bills
\* are saved with one total and more than the total paid.
NextItems ==
    \/ LoginAdmin /\ Alone
    \/ show_billing /\ Alone
    \/ BillHandlers({ <<"1", "0", "0">> }, { <<"1", "5", "0">> }, {"Unpaid"})
    \/ ItemHandlers(QuantityTexts, PriceTexts)

SpecItems == InitBilling /\ [][NextItems]_allvars

\* a file like BookedFile in which the first appointment has been billed,
\* with one item on the bill
BilledFile ==
    LET bill == InsertBill({}, 0, [appointment |-> Choice(1), total |-> <<"1", "0", "0">>,
                                  status |-> "Unpaid", method |-> "Cash",
                                  paid |-> <<>>], 1)
        item == InsertBillItem({}, 0, 1, [service_type |-> "Consultation",
                                          description |-> "visit",
                                          quantity |-> <<"2">>,
                                          unit_price |-> <<"1", "0">>])
    IN  [BookedFile EXCEPT !.Bills = bill.table, !.BillItems = item.table,
                           !.sqlite_sequence.Bills = bill.seq,
                           !.sqlite_sequence.BillItems = item.seq]

\* SpecRecords: the patient form and the three listings, on a store with
\* patients, appointments and a bill.
InitRecords == InitFile(BilledFile) /\ InitUI /\ InitIdle

NextRecords ==
    \/ LoginAdmin /\ Alone
    \/ show_login /\ Alone
    \/ show_patient_management /\ Alone
    \/ show_appointment_management /\ Alone
    \/ show_billing /\ Alone
    \/ PatientHandlers(FirstNames)
    \/ \E AppointmentID \in AppointmentList :
         on_appointment_select(AppointmentID) /\ Alone
    \/ \E BillID \in BillList : on_bill_select(BillID) /\ Alone

SpecRecords == InitRecords /\ [][NextRecords]_allvars

\* SpecCancel: the appointment and billing frames on the same store, with
\* appointments cancelled and new bills saved.
NextCancel ==
    \/ LoginAdmin /\ Alone
    \/ show_appointment_management /\ Alone
    \/ show_billing /\ Alone
    \/ \E AppointmentID \in AppointmentList :
         on_appointment_select(AppointmentID) /\ Alone
    \/ \E confirm \in BOOLEAN : cancel_appointment(confirm) /\ Alone
    \/ BillHandlers({ <<"1", "0", "0">> }, { <<>> }, {"Unpaid"})

SpecCancel == InitRecords /\ [][NextCancel]_allvars

(***************************************************************************)
(* ClinicDatabase.export_data and import_data: the tables as a JSON        *)
(* document.  A document is the sequence of its entries, one per table     *)
(* name, each with the list of its rows.  A row is a JSON array (a list of *)
(* values) or a JSON object (names with their values).                     *)
(***************************************************************************)
\* tables = ['Users', 'Patients', ..., 'MedicalTests']
ExportTables ==
    <<"Users", "Patients", "Doctors", "Appointments", "Bills", "BillItems",
      "MedicalTests">>

\* the columns the model keeps of each table, in the order CREATE TABLE
\* declares them; the first is the INTEGER PRIMARY KEY
Columns(table) ==
    CASE table = "Users" ->
           <<"UserID", "Username", "PasswordHash", "Role", "IsActive">>
      [] table = "Patients" ->
           <<"PatientID", "PatientCode", "FirstName", "IsActive">>
      [] table = "Doctors" ->
           <<"DoctorID", "UserID", "SpecializationID", "DepartmentID",
             "LicenseNumber", "YearsOfExperience", "IsActive">>
      [] table = "Appointments" ->
           <<"AppointmentID", "PatientID", "DoctorID", "AppointmentDate",
             "AppointmentTime", "StatusID", "Notes">>
      [] table = "Bills" ->
           <<"BillID", "AppointmentID", "TotalAmount", "PaymentStatus",
             "PaymentMethod", "PaidAmount", "CreatedBy">>
      [] table = "BillItems" ->
           <<"BillItemID", "BillID", "ServiceType", "Description", "Quantity",
             "UnitPrice">>
      [] table = "MedicalTests" ->
           <<"TestID", "TestCode", "TestName">>

PrimaryKey(table) == Columns(table)[1]

\* the values of a row, in column order: what the cursor returns for it
RowTuple(table, row) ==
    [i \in 1..Len(Columns(table)) |-> row[Columns(table)[i]]]

\* SELECT * FROM table; fetchall(): the rows as tuples, in rowid order
RECURSIVE fetchall(_, _)
fetchall(table, rows) ==
    IF rows = {}
      THEN <<>>
      ELSE LET key   == PrimaryKey(table)
               first == CHOOSE r \in rows : \A q \in rows : r[key] <= q[key]
           IN  <<RowTuple(table, first)>> \o fetchall(table, rows \ {first})

\* json.dump writes a tuple as a JSON array: the column names are not in it
JsonArray(values) == [json |-> "array", names |-> <<>>, values |-> values]

\* a JSON object: json.load reads it as a dict, in the order written
JsonObject(names, values) == [json |-> "object", names |-> names, values |-> values]

\* data[table] = cursor.fetchall() for each table; json.dump(data, f)
ExportDocument(store) ==
    [i \in 1..Len(ExportTables) |->
        LET table  == ExportTables[i]
            tuples == fetchall(table, store[table])
        IN  [table |-> table,
             rows  |-> [j \in 1..Len(tuples) |-> JsonArray(tuples[j])]]]

\* the same rows written as objects keyed by column name, for the tables
\* listed: the only shape of row import_data can insert
ObjectDocument(store, tables) ==
    [i \in 1..Len(tables) |->
        LET table  == tables[i]
            tuples == fetchall(table, store[table])
        IN  [table |-> table,
             rows  |-> [j \in 1..Len(tuples) |->
                           JsonObject(Columns(table), tuples[j])]]]

\* export_data(filename): no table changes, no message is shown
export_data ==
    /\ document' = ExportDocument(Stored)
    /\ UNCHANGED <<vars_db, vars_ui, vars_bill, vars_doctor, disk>>

SeqRange(seq) == { seq[i] : i \in 1..Len(seq) }

\* UNIQUE on one column
ColumnUnique(rows, key, column) ==
    \A r1, r2 \in rows : r1[column] = r2[column] => r1[key] = r2[key]

\* the constraints of each table that an INSERT of `row` can violate; the
\* FOREIGN KEY clauses are not enforced
TableConstraints(table, rows, row) ==
    CASE table = "Users"        -> ColumnUnique(rows, "UserID", "Username")
      [] table = "Patients"     -> PatientCodeUnique(rows)
      [] table = "Doctors"      -> /\ ColumnUnique(rows, "DoctorID", "UserID")
                                   /\ ColumnUnique(rows, "DoctorID", "LicenseNumber")
      [] table = "Appointments" -> SlotUnique(rows)
      [] table = "Bills"        -> BillsCheck(row)
      [] table = "BillItems"    -> BillItemsCheck(row)
      [] table = "MedicalTests" -> ColumnUnique(rows, "TestID", "TestCode")

\* one pass of the inner loop of import_data:
\*   columns = the row's keys except 'rowid'; one placeholder per key;
\*   INSERT INTO table (columns) VALUES (placeholders), row.values()
\* A row that is a list has no keys(): AttributeError.  The documents read
\* here name, in their object rows, exactly the columns the model keeps.
InsertRow(store, table, row) ==
    LET failed  == [ok |-> FALSE, store |-> store]
        columns == SelectSeq(row.names, LAMBDA col : col # "rowid")
    IN  IF row.json # "object"
          THEN failed
        ELSE IF Len(columns) # Len(row.values)
          THEN failed
        ELSE IF SeqRange(columns) # SeqRange(Columns(table))
          THEN failed
        ELSE
          LET new  == [col \in SeqRange(columns) |->
                         row.values[CHOOSE i \in 1..Len(columns) : columns[i] = col]]
              key  == PrimaryKey(table)
              rows == store[table] \cup {new}
              seq  == store.sqlite_sequence
              counted ==
                  IF table \in DOMAIN seq /\ seq[table] < new[key]
                    THEN [store EXCEPT !.sqlite_sequence[table] = new[key]]
                    ELSE store
          IN  IF \E r \in store[table] : r[key] = new[key]
                THEN failed
              ELSE IF ~TableConstraints(table, rows, new)
                THEN failed
              ELSE IF table = "Patients"
                THEN LET coded == trg_GeneratePatientCode(rows, new.PatientID)
                     IN  IF PatientCodeUnique(coded)
                           THEN [ok |-> TRUE, store |-> [counted EXCEPT ![table] = coded]]
                           ELSE failed
              ELSE [ok |-> TRUE, store |-> [counted EXCEPT ![table] = rows]]

\* for row in rows: ... ; the first INSERT that raises ends the loop, the
\* rows inserted before it stay
RECURSIVE InsertRows(_, _, _)
InsertRows(store, table, rows) ==
    IF Len(rows) = 0
      THEN [ok |-> TRUE, store |-> store]
      ELSE LET r == InsertRow(store, table, Head(rows))
           IN  IF r.ok THEN InsertRows(r.store, table, Tail(rows)) ELSE r

\* for table, rows in data.items(): DELETE FROM table, then the INSERTs.
\* The exception of a failing INSERT leaves the loop; nothing is undone.
RECURSIVE ImportTables(_, _)
ImportTables(store, data) ==
    IF Len(data) = 0
      THEN [ok |-> TRUE, store |-> store]
      ELSE LET table   == Head(data).table
               deleted == [store EXCEPT ![table] = {}]
               r       == InsertRows(deleted, table, Head(data).rows)
           IN  IF r.ok THEN ImportTables(r.store, Tail(data)) ELSE r

\* a backup written by hand in the shape import_data reads, taken when only
\* the first patient was registered
OlderBackup ==
    ObjectDocument([Patients |-> { p \in TwoPatients.table : p.PatientID = 1 }],
                   <<"Patients">>)

\* a document whose second table repeats a row: the second INSERT of the
\* row violates the PRIMARY KEY
BrokenBackup ==
    LET patients == OlderBackup[1].rows
    IN  <<[table |-> "Bills", rows |-> <<>>],
          [table |-> "Patients", rows |-> patients \o patients]>>

\* a backup of the Appointments table in the same shape, taken when only
\* the first appointment was booked
AppointmentsBackup ==
    ObjectDocument([Appointments |-> { a \in BookedFile.Appointments :
                                          a.AppointmentID = 1 }],
                   <<"Appointments">>)

\* the files import_data is given: the file export_data wrote, and the
\* hand-written ones
Filenames == {"export.json", "older.json", "broken.json", "appointments.json"}

FileExists(filename) == filename = "export.json" => Len(document) > 0

\* json.load(f)
json_load(filename) ==
    CASE filename = "export.json" -> document
      [] filename = "older.json"  -> OlderBackup
      [] filename = "broken.json" -> BrokenBackup
      [] filename = "appointments.json" -> AppointmentsBackup

ImportFailed == "Failed to import data"

\* import_data(filename), on the tables as the connection reads them: open()
\* raises when the file does not exist, before any statement
import_data_outcome(filename) ==
    IF FileExists(filename)
      THEN ImportTables(Stored, json_load(filename))
      ELSE [ok |-> FALSE, store |-> Stored]

\* import_data(filename): commit() is reached only when no statement raised;
\* the except branch shows the error and returns, without rollback()
import_data(filename) ==
    LET out == import_data_outcome(filename)
    IN  /\ Users' = out.store.Users
        /\ Patients' = out.store.Patients
        /\ Doctors' = out.store.Doctors
        /\ Appointments' = out.store.Appointments
        /\ Bills' = out.store.Bills
        /\ BillItems' = out.store.BillItems
        /\ MedicalTests' = out.store.MedicalTests
        /\ sqlite_sequence' = out.store.sqlite_sequence
        /\ IF out.ok
             THEN conn_commit /\ UNCHANGED msg
             ELSE msg' = ImportFailed /\ UNCHANGED disk
        /\ UNCHANGED <<screen, user_id, user_role, current_patient,
                       current_appointment, vars, combos, vars_bill, vars_doctor, document>>

\* SpecImport: export and import beside the bill form, on a store with
\* patients, appointments, a bill and an item.
InitImport == InitFile(BilledFile) /\ InitUI /\ InitIdle

NextImport ==
    \/ LoginAdmin /\ Alone
    \/ show_billing /\ Alone
    \/ \E form \in { f \in BillForms : /\ f.total = <<"1", "0", "0">>
                                      /\ f.paid = <<>>
                                      /\ f.status = "Unpaid" } :
         save_bill(form) /\ Alone
    \/ export_data /\ Alone
    \/ \E filename \in Filenames : import_data(filename) /\ Alone

SpecImport == InitImport /\ [][NextImport]_allvars

\* a store with the tables created and no row
EmptyStore ==
    [Users |-> {}, Patients |-> {}, Doctors |-> {}, Appointments |-> {},
     Bills |-> {}, BillItems |-> {}, MedicalTests |-> {},
     sqlite_sequence |-> [Patients |-> 0, Doctors |-> 0, Appointments |-> 0,
                          Bills |-> 0, BillItems |-> 0]]

(***************************************************************************)
(* Program start: __main__ builds ClinicDatabase and MainApplication.      *)
(***************************************************************************)
\* insert_sample_data on the tables create_tables left: nothing when Users
\* has a row; otherwise the sample rows are inserted in turn until the
\* INSERT INTO MedicineCategories, a table create_tables does not create,
\* raises sqlite3.OperationalError before the commit at the end
insert_sample_data(store) ==
    IF store.Users # {}
      THEN [ok |-> TRUE, store |-> store]
      ELSE [ok |-> FALSE,
            store |-> [store EXCEPT !.Users = SampleUsers, !.Doctors = SampleDoctors]]

\* db = ClinicDatabase(); app = MainApplication(db).  Neither __init__ nor
\* __main__ has a try: the exception of insert_sample_data ends the process
\* with a traceback, and its uncommitted rows are never written to the file.
main ==
    /\ screen = "not started"
    /\ screen' = IF insert_sample_data(Stored).ok THEN "login" ELSE "terminated"
    /\ UNCHANGED <<vars_db, vars_file, user_id, user_role, current_patient,
                   current_appointment, vars, combos, msg, vars_bill, vars_doctor>>

\* SpecStart: the program is started on a file that does not exist yet or on
\* one that holds the sample rows, and the patient form is used.
InitStart ==
    /\ \E file \in {EmptyStore, FileOf(FreshPatients)} : InitFile(file)
    /\ screen = "not started"
    /\ user_id = None
    /\ user_role = NoRole
    /\ current_patient = None
    /\ current_appointment = None
    /\ vars = NewForm
    /\ combos = NoCombos
    /\ msg = "none"
    /\ current_bill = None
    /\ bill_vars = NewBill
    /\ appointment_combo = {}
    /\ dialog = None
    /\ current_doctor = None
    /\ doctor_vars = NewDoctor
    /\ InitIdle

NextStart ==
    \/ main /\ Alone
    \/ Login /\ Alone
    \/ show_login /\ Alone
    \/ show_patient_management /\ Alone
    \/ PatientHandlers(FirstNames)

SpecStart == InitStart /\ [][NextStart]_allvars

\* SpecStatus: the appointment form with every status and empty notes, on
\* the store with two patients.
NextStatus ==
    \/ LoginAdmin /\ Alone
    \/ show_appointment_management /\ Alone
    \/ AppointmentHandlers(StatusChoices, {""})

SpecStatus == InitForm /\ [][NextStatus]_allvars

(***************************************************************************)
(* Doctors: the table and the DoctorManagementFrame that is in effect (the *)
(* class defined last under that name).                                    *)
(***************************************************************************)
\* bound on the AUTOINCREMENT ids of Doctors
MaxDoctors == 3

\* the rows insert_sample_data writes to Specializations and Departments
SampleSpecializations ==
    { [SpecializationID |-> 1, Name |-> "Cardiology", IsActive |-> 1],
      [SpecializationID |-> 2, Name |-> "Neurology", IsActive |-> 1],
      [SpecializationID |-> 3, Name |-> "General Practice", IsActive |-> 1] }

SampleDepartments ==
    { [DepartmentID |-> 1, DepartmentName |-> "Cardiology", IsActive |-> 1],
      [DepartmentID |-> 2, DepartmentName |-> "Emergency", IsActive |-> 1],
      [DepartmentID |-> 3, DepartmentName |-> "Pharmacy", IsActive |-> 1] }

\* load_users: the values of the User combobox
DoctorUserChoices ==
    { Choice(u.UserID) : u \in { x \in Users : x.Role = "Doctor" /\ x.IsActive = 1 } }

\* load_specializations, load_departments: the values of the two comboboxes
SpecializationChoices ==
    { Choice(s.SpecializationID) : s \in { x \in SampleSpecializations : x.IsActive = 1 } }

DepartmentChoices ==
    { Choice(d.DepartmentID) : d \in { x \in SampleDepartments : x.IsActive = 1 } }

\* texts typed into the License Number and Experience entries
LicenseTexts == {"", "MD12345", "MD777"}
ExperienceTexts == { <<>>, <<"5">>, <<"-", "1">>, <<"x">> }

\* what the form can hold: the comboboxes are readonly, so each holds "" or
\* one of its values
DoctorForms ==
    [user : {Blank} \cup DoctorUserChoices,
     specialization : {Blank} \cup SpecializationChoices,
     department : {Blank} \cup DepartmentChoices,
     license : LicenseTexts,
     experience : ExperienceTexts]

\* DoctorManagementFrame.validate_form
doctor_validate_form(form) ==
    /\ form.user # Blank
    /\ form.specialization # Blank
    /\ form.license # ""

\* the columns save_doctor binds
DoctorRow(id, form) ==
    [DoctorID |-> id, UserID |-> IdOf(form.user),
     SpecializationID |-> IdOf(form.specialization),
     DepartmentID |-> IF form.department = Blank THEN None
                      ELSE IdOf(form.department),
     LicenseNumber |-> form.license,
     YearsOfExperience |-> IF form.experience = <<>> THEN 0
                           ELSE int(form.experience).value,
     IsActive |-> 1]

\* CHECK (YearsOfExperience >= 0)
DoctorsCheck(row) == row.YearsOfExperience >= 0

\* UserID INTEGER NOT NULL UNIQUE, LicenseNumber TEXT NOT NULL UNIQUE: over
\* every row of the table, whatever its IsActive
DoctorsUnique(table) ==
    /\ ColumnUnique(table, "DoctorID", "UserID")
    /\ ColumnUnique(table, "DoctorID", "LicenseNumber")

\* the message of the sqlite3.Error the statement raised: the CHECK is
\* evaluated before the UNIQUE indexes
DoctorsError(table, row) ==
    IF ~DoctorsCheck(row) THEN "Database error: CHECK constraint failed"
    ELSE IF ~DoctorsUnique(table) THEN UniqueFailed
    ELSE "none"

\* a storage whose UNIQUE columns look at the active rows only
InsertDoctor_ActiveOnly(table, seq, form) ==
    LET row == DoctorRow(seq + 1, form)
        error == DoctorsError({ d \in table : d.IsActive = 1 } \cup {row}, row)
    IN  IF error = "none"
          THEN [ok |-> TRUE, table |-> table \cup {row}, seq |-> seq + 1, error |-> error]
          ELSE [ok |-> FALSE, table |-> table, seq |-> seq, error |-> error]

\* INSERT INTO Doctors (UserID, SpecializationID, DepartmentID, LicenseNumber,
\* YearsOfExperience): IsActive takes its default 1
InsertDoctor(table, seq, form) ==
    LET row == DoctorRow(seq + 1, form)
        error == DoctorsError(table \cup {row}, row)
    IN  IF error = "none"
          THEN [ok |-> TRUE, table |-> table \cup {row}, seq |-> seq + 1, error |-> error]
          ELSE [ok |-> FALSE, table |-> table, seq |-> seq, error |-> error]

\* UPDATE Doctors SET UserID=?, SpecializationID=?, DepartmentID=?,
\* LicenseNumber=?, YearsOfExperience=? WHERE DoctorID=?
UpdateDoctor(table, seq, DoctorID, form) ==
    LET old == { d \in table : d.DoctorID = DoctorID }
        new == { [DoctorRow(DoctorID, form) EXCEPT !.IsActive = d.IsActive] : d \in old }
        after == (table \ old) \cup new
        errors == { DoctorsError(after, row) : row \in new } \ {"none"}
    IN  IF errors = {}
          THEN [ok |-> TRUE, table |-> after, seq |-> seq, error |-> "none"]
          ELSE [ok |-> FALSE, table |-> table, seq |-> seq,
                error |-> CHOOSE e \in errors : TRUE]

\* UPDATE Doctors SET IsActive=0 WHERE DoctorID=?
DeactivateDoctor(table, DoctorID) ==
    { IF d.DoctorID = DoctorID THEN [d EXCEPT !.IsActive = 0] ELSE d : d \in table }

\* load_doctors, and search_doctors with an empty search term: the DoctorIDs
\* of the rows of the tree
DoctorList ==
    { d.DoctorID :
        d \in { x \in Doctors :
                  /\ x.IsActive = 1
                  /\ \E u \in Users : u.UserID = x.UserID
                  /\ \E s \in SampleSpecializations :
                        s.SpecializationID = x.SpecializationID } }

\* menu entry "Doctors": clear_content, then a new DoctorManagementFrame
show_doctor_management ==
    /\ screen \notin NoInterface
    /\ screen' = "doctors"
    /\ current_patient' = None
    /\ current_appointment' = None
    /\ vars' = NewForm
    /\ combos' = NoCombos
    /\ msg' = "none"
    /\ no_billing_frame
    /\ current_doctor' = None
    /\ doctor_vars' = NewDoctor
    /\ UNCHANGED <<user_id, user_role, vars_db, vars_file>>

\* what a handler of the doctor frame leaves alone
doctor_frame ==
    UNCHANGED <<screen, user_id, user_role, current_patient, current_appointment,
                vars, combos, vars_bill, Users, Patients, Appointments, Bills,
                BillItems, MedicalTests, document>>

\* button "New"
new_doctor ==
    /\ screen = "doctors"
    /\ current_doctor' = None
    /\ doctor_vars' = NewDoctor
    /\ msg' = "none"
    /\ doctor_frame
    /\ UNCHANGED <<Doctors, sqlite_sequence, disk>>

\* what on_doctor_select leaves behind for the row of DoctorID: its first
\* statement reads self.ttree, an attribute the frame never sets (the tree
\* is self.tree), so AttributeError leaves the handler before it assigns
\* anything
on_doctor_select_outcome(DoctorID) ==
    [raised |-> "AttributeError", current_doctor |-> current_doctor,
     doctor_vars |-> doctor_vars]

\* <<TreeviewSelect>> on the row of DoctorID
on_doctor_select(DoctorID) ==
    /\ screen = "doctors"
    /\ DoctorID \in DoctorList
    /\ current_doctor' = on_doctor_select_outcome(DoctorID).current_doctor
    /\ doctor_vars' = on_doctor_select_outcome(DoctorID).doctor_vars
    /\ doctor_frame
    /\ UNCHANGED <<Doctors, sqlite_sequence, disk, msg>>

\* what save_doctor does with the form when `current` is the current doctor:
\* the message box shown, the table and the frame afterwards.  int() of the
\* Experience text is outside the try, so its ValueError leaves the handler
\* with no box
save_doctor_outcome(current, form) ==
    LET r == IF current # None
               THEN UpdateDoctor(Doctors, sqlite_sequence.Doctors, current, form)
               ELSE InsertDoctor(Doctors, sqlite_sequence.Doctors, form)
        kept == [saved |-> FALSE, raised |-> FALSE, msg |-> "none",
                 Doctors |-> Doctors, seq |-> sqlite_sequence.Doctors,
                 current_doctor |-> current, doctor_vars |-> form]
    IN  IF ~doctor_validate_form(form)
          THEN [kept EXCEPT !.msg = "Validation Error"]
        ELSE IF form.experience # <<>> /\ ~int(form.experience).ok
          THEN [kept EXCEPT !.raised = TRUE]
        ELSE IF ~r.ok
          THEN [kept EXCEPT !.msg = r.error]
        ELSE [saved |-> TRUE, raised |-> FALSE,
              msg |-> IF current # None THEN "Doctor updated successfully"
                      ELSE "Doctor added successfully",
              Doctors |-> r.table, seq |-> r.seq,
              current_doctor |-> None, doctor_vars |-> NewDoctor]

\* button "Save"
save_doctor(form) ==
    /\ screen = "doctors"
    /\ form \in DoctorForms
    /\ LET out == save_doctor_outcome(current_doctor, form)
       IN  /\ out.saved /\ current_doctor = None
                => sqlite_sequence.Doctors < MaxDoctors
           /\ Doctors' = out.Doctors
           /\ sqlite_sequence' = [sqlite_sequence EXCEPT !.Doctors = out.seq]
           /\ current_doctor' = out.current_doctor
           /\ doctor_vars' = out.doctor_vars
           /\ msg' = IF out.raised THEN msg ELSE out.msg
           /\ IF out.saved THEN conn_commit ELSE UNCHANGED disk
    /\ doctor_frame

\* button "Delete"
delete_doctor(confirm) ==
    /\ screen = "doctors"
    /\ IF current_doctor = None
         THEN /\ msg' = "No doctor selected"
              /\ UNCHANGED <<Doctors, vars_doctor>>
         ELSE IF confirm
           THEN /\ Doctors' = DeactivateDoctor(Doctors, current_doctor)
                /\ msg' = "Doctor deleted"
                /\ current_doctor' = None
                /\ doctor_vars' = NewDoctor
           ELSE /\ msg' = "none"
                /\ UNCHANGED <<Doctors, vars_doctor>>
    /\ doctor_frame
    /\ UNCHANGED sqlite_sequence
    /\ IF current_doctor # None /\ confirm THEN conn_commit ELSE UNCHANGED disk

DoctorHandlers ==
    \/ new_doctor /\ Alone
    \/ (\E DoctorID \in 1..MaxDoctors : on_doctor_select(DoctorID)) /\ Alone
    \/ (\E form \in DoctorForms : save_doctor(form)) /\ Alone
    \/ (\E confirm \in BOOLEAN : delete_doctor(confirm)) /\ Alone

InitDoctors == InitStore(FreshPatients) /\ InitUI /\ InitIdle

NextDoctors ==
    \/ Login /\ Alone
    \/ show_login /\ Alone
    \/ show_doctor_management /\ Alone
    \/ show_appointment_management /\ Alone
    \/ DoctorHandlers

SpecDoctors == InitDoctors /\ [][NextDoctors]_allvars

(***************************************************************************)
(* Properties of the scheduling engine.                                    *)
(***************************************************************************)
\* the complete forms the user can submit that ask for the (doctor, date,
\* time) of stored appointment `a`
FormsAt(a) ==
    { f \in Forms : /\ appointment_validate_form(f)
                    /\ SameSlot(AppointmentRow(None, f), a) }

\* C1: in every reachable state at most one stored appointment has a given
\* (DoctorID, AppointmentDate, AppointmentTime); and a create (Save with no
\* current appointment) whose triple is that of a stored appointment fails
\* with the UNIQUE-constraint error and leaves the Appointments table as it was.
C1_OneAppointmentPerSlot ==
    /\ \A a1, a2 \in Appointments :
          SameSlot(a1, a2) => a1.AppointmentID = a2.AppointmentID
    /\ (screen = "appointments" /\ current_appointment = None)
          => \A a \in Appointments : \A form \in FormsAt(a) :
                LET out == save_appointment_outcome(form)
                IN  /\ ~out.saved
                    /\ out.msg = UniqueFailed
                    /\ out.table = Appointments

\* a create on a taken slot has just been refused, the first booking still stored
C1_Witness ==
    /\ screen = "appointments"
    /\ current_appointment = None
    /\ msg = UniqueFailed
    /\ Cardinality(Appointments) = 1

\* both callers have finished bookings of the same (doctor, date, time)
BothBookedSameSlot ==
    /\ \A c \in Callers : sessions[c].pc = "done"
    /\ SameSlot(AppointmentRow(None, sessions[1].form),
                AppointmentRow(None, sessions[2].form))

\* the stored appointments at the slot caller c asked for
StoredAt(c) ==
    { a \in Appointments : SameSlot(a, AppointmentRow(None, sessions[c].form)) }

ScenarioAt(time) ==
    { a \in Appointments : /\ a.DoctorID = IdOf(ScenarioDoctor)
                           /\ a.AppointmentDate = script.date
                           /\ a.AppointmentTime = time }

\* C3: booking doctor D at slot S for patient A succeeds (status Scheduled);
\* booking D at S for patient B then fails with the UNIQUE-constraint error;
\* moving A's appointment to the free slot S2 succeeds; afterwards S is free
\* and the booking of D at S for B succeeds.
C3_BookingScenario ==
    /\ script.step = "bookB" =>
         /\ msg = "Appointment added successfully"
         /\ \E a \in Appointments :
              /\ Appointments = {a}
              /\ a.AppointmentID = script.first
              /\ a.PatientID = script.A
              /\ a.StatusID = 1
              /\ ScenarioAt(script.S) = {a}
    /\ script.step = "selectA" =>
         /\ msg = UniqueFailed
         /\ \E a \in Appointments :
              /\ Appointments = {a}
              /\ a.PatientID = script.A
              /\ ScenarioAt(script.S) = {a}
    /\ script.step = "newB" =>
         /\ msg = "Appointment updated successfully"
         /\ ScenarioAt(script.S) = {}
         /\ \E a \in Appointments :
              /\ Appointments = {a}
              /\ a.AppointmentID = script.first
              /\ a.PatientID = script.A
              /\ ScenarioAt(script.S2) = {a}
    /\ script.step = "done" =>
         /\ msg = "Appointment added successfully"
         /\ Cardinality(Appointments) = 2
         /\ \E a \in ScenarioAt(script.S2) :
              a.PatientID = script.A /\ a.AppointmentID = script.first
         /\ \E b \in ScenarioAt(script.S) :
              b.PatientID = script.B /\ b.AppointmentID # script.first

\* the scenario has run to its end
C3_Witness ==
    /\ script.step = "done"
    /\ \E b \in ScenarioAt(script.S) : b.PatientID = script.B

\* the stored appointment the form is editing
CurrentRows == { a \in Appointments : a.AppointmentID = current_appointment }

\* C4: an update (Save with a current appointment) that keeps the
\* appointment's own (doctor, date, time) succeeds and replaces the row with
\* the form's patient, status and notes; an update whose triple is that of a
\* different stored appointment fails with the UNIQUE-constraint error and
\* leaves every appointment as it was.
C4_UpdateExcludesItself ==
    (screen = "appointments" /\ current_appointment # None)
        => \E cur \in CurrentRows :
             /\ \A form \in FormsAt(cur) :
                  LET out == save_appointment_outcome(form)
                  IN  /\ out.saved
                      /\ out.msg = "Appointment updated successfully"
                      /\ out.table = (Appointments \ {cur})
                                       \cup { AppointmentRow(cur.AppointmentID, form) }
             /\ \A other \in Appointments \ {cur} : \A form \in FormsAt(other) :
                  LET out == save_appointment_outcome(form)
                  IN  /\ ~out.saved
                      /\ out.msg = UniqueFailed
                      /\ out.table = Appointments

\* an update onto the slot of the other appointment has just failed
C4_Witness ==
    /\ screen = "appointments"
    /\ current_appointment # None
    /\ msg = UniqueFailed
    /\ Cardinality(Appointments) = 2

\* the combobox value names a stored, active row
ActivePatient(choice) ==
    /\ choice # Blank
    /\ \E p \in Patients : p.PatientID = IdOf(choice) /\ p.IsActive = 1

ActiveDoctor(choice) ==
    /\ choice # Blank
    /\ \E d \in Doctors : d.DoctorID = IdOf(choice) /\ d.IsActive = 1

\* C5: a Save (create or update) whose patient or doctor is missing or has
\* IsActive = 0 at the time of the write stores nothing and leaves the
\* Appointments table as it was.
C5_WriteChecksPatientAndDoctor ==
    screen = "appointments"
        => \A form \in Forms :
             (/\ appointment_validate_form(form)
              /\ ~(ActivePatient(form.patient) /\ ActiveDoctor(form.doctor)))
                 => LET out == save_appointment_outcome(form)
                    IN  ~out.saved /\ out.table = Appointments

\* C6: every appointment a create (Save with no current appointment) stores
\* has status Scheduled, whatever the form holds.
C6_CreateStoresScheduled ==
    (screen = "appointments" /\ current_appointment = None)
        => \A form \in Forms :
             LET out == save_appointment_outcome(form)
             IN  out.saved => \A a \in out.table \ Appointments : a.StatusID = 1

\* C7: cancel_appointment on a selected appointment removes exactly its row
\* (no appointment with that id is left, no other row changes), and in the
\* state it leaves a create at the removed appointment's (doctor, date, time)
\* succeeds.
C7_CancelRemovesRow ==
    [][ (current_appointment # None /\ msg' = "Appointment cancelled")
          => /\ \A a \in Appointments' : a.AppointmentID # current_appointment
             /\ Appointments' = Appointments \ CurrentRows
             /\ CurrentRows # {}
             /\ \A gone \in CurrentRows :
                  (\A form \in FormsAt(gone) :
                      LET out == save_appointment_outcome(form)
                      IN  /\ out.saved
                          /\ \E a \in out.table : SameSlot(a, gone)
                                                    /\ a.AppointmentID # gone.AppointmentID)'
      ]_allvars

\* an appointment has just been cancelled: its id is used up and its row gone
C7_Witness ==
    /\ msg = "Appointment cancelled"
    /\ current_appointment = None
    /\ Cardinality(Appointments) < sqlite_sequence.Appointments

\* C8: whatever the status of the selected appointment, an update that sets
\* any status of {Scheduled, Completed, Cancelled, No Show} succeeds and
\* stores that status.
C8_AnyStatusToAnyStatus ==
    (screen = "appointments" /\ current_appointment # None)
        => \E cur \in CurrentRows :
             /\ StatusChoices \subseteq combos.status
             /\ \A status \in StatusChoices :
                  LET form == [vars EXCEPT !.status = status]
                      out  == save_appointment_outcome(form)
                  IN  /\ form \in Forms
                      /\ out.saved
                      /\ \E a \in out.table : /\ a.AppointmentID = cur.AppointmentID
                                              /\ a.StatusID = IdOf(status)

\* a Completed appointment is selected, and one appointment has been updated
\* to No Show
C8_Witness ==
    /\ screen = "appointments"
    /\ \E cur \in CurrentRows : cur.StatusID = 2
    /\ \E a \in Appointments : a.StatusID = 4 /\ a.AppointmentID # current_appointment

\* n in decimal, padded with zeros on the left to at least `width` digits
ZeroPad(n, width) ==
    LET digits == Str(n)
    IN  IF Len(digits) >= width THEN digits
        ELSE [i \in 1..(width - Len(digits)) |-> "0"] \o digits

\* C9: every patient row's code is "PAT-" followed by its id zero-padded to
\* at least 4 digits, ids of 10000 and above with all their digits; editing
\* or deactivating a patient leaves every code as it was.
C9_CodeIsPaddedId ==
    /\ \A p \in Patients :
         p.PatientCode = <<"P", "A", "T", "-">> \o ZeroPad(p.PatientID, 4)
    /\ (screen = "patients" /\ current_patient # None)
          => \A p \in Patients :
               /\ \A first_name \in FirstNames :
                    \E q \in save_patient_outcome(first_name).table :
                       q.PatientID = p.PatientID /\ q.PatientCode = p.PatientCode
               /\ \E q \in DeactivatePatient(Patients, current_patient) :
                       q.PatientID = p.PatientID /\ q.PatientCode = p.PatientCode

\* C10: no stored patient row has a NULL PatientCode, and an insert whose code
\* assignment fails stores no row: the Patients table and the id counter stay
\* as they were.
C10_CodeAssignedWithCreation ==
    /\ \A p \in Patients : p.PatientCode # NULL
    /\ (screen = "patients" /\ current_patient = None)
          => \A first_name \in FirstNames :
               LET out == save_patient_outcome(first_name)
               IN  /\ \A p \in out.table : p.PatientCode # NULL
                   /\ ~out.saved => out.table = Patients
                   /\ out.saved => \E p \in out.table \ Patients :
                                      p.PatientID = out.seq

\* an insert has just failed in the trigger's code assignment
C10_Witness ==
    /\ screen = "patients"
    /\ msg = UniqueFailed
    /\ sqlite_sequence.Patients >= 10000

(***************************************************************************)
(* Properties of patient records and billing.                              *)
(***************************************************************************)
\* the appointments of a patient, and the bills of those appointments
AppointmentsOf(PatientID) == { a \in Appointments : a.PatientID = PatientID }

BillsOf(PatientID) ==
    { b \in Bills : \E a \in AppointmentsOf(PatientID) :
                       a.AppointmentID = b.AppointmentID }

\* C11: delete_patient on the selected patient sets its IsActive to 0: the
\* patient is then absent from load_patients, from search_patients whatever
\* the term, and from the appointment form's patient choices, while the
\* Appointments, Bills and BillItems tables are unchanged and the patient's
\* appointments and bills are still in the appointment and bill listings.
C11_DeactivationHidesPatientOnly ==
    [][ (screen = "patients" /\ current_patient # None /\ msg' = "Patient deleted")
          => /\ \E p \in Patients' : p.PatientID = current_patient /\ p.IsActive = 0
             /\ current_patient \notin PatientList'
             /\ \A term \in FirstNames : current_patient \notin search_patients(term)'
             /\ Choice(current_patient) \notin PatientChoices'
             /\ Appointments' = Appointments
             /\ Bills' = Bills
             /\ BillItems' = BillItems
             /\ AppointmentList' = AppointmentList
             /\ load_bills' = load_bills
             /\ \A a \in AppointmentsOf(current_patient) :
                   a.AppointmentID \in AppointmentList'
             /\ \A b \in BillsOf(current_patient) : b.BillID \in BillList'
      ]_allvars

\* a patient with an appointment and a bill has just been deactivated
C11_Witness ==
    /\ msg = "Patient deleted"
    /\ \E p \in Patients :
         /\ p.IsActive = 0
         /\ AppointmentsOf(p.PatientID) # {}
         /\ BillsOf(p.PatientID) # {}

\* C12: no operation of the program removes a patient row that a stored
\* appointment refers to: in every state, every appointment's PatientID is
\* the PatientID of a row of Patients.
C12_AppointmentPatientExists ==
    \A a \in Appointments : \E p \in Patients : p.PatientID = a.PatientID

\* C13: a failed import applies nothing.  A step that ends with the import's
\* failure message leaves every table as it was, and a step that makes
\* something durable starts with nothing pending, so that no statement of a
\* failed import is committed by a later operation.
C13_FailedImportAppliesNothing ==
    [][ /\ msg' = ImportFailed => Stored' = Stored
        /\ disk' # disk => Stored = disk
      ]_allvars

\* C14: for the tables of every state, export_data followed by import_data of
\* the written document into an empty store succeeds, and every exported
\* table of the target then has the same rows in the same order as the
\* source.
C14_RoundTrip ==
    LET out == ImportTables(EmptyStore, ExportDocument(Stored))
    IN  /\ out.ok
        /\ \A i \in 1..Len(ExportTables) :
             fetchall(ExportTables[i], out.store[ExportTables[i]])
                 = fetchall(ExportTables[i], Stored[ExportTables[i]])

\* every row of the bill listing shows, as Due, the stored TotalAmount minus
\* the stored PaidAmount of its bill
DueIsTotalMinusPaid ==
    \A row \in load_bills :
        \E b \in Bills : /\ b.BillID = row.BillID
                         /\ row.Due = b.TotalAmount - b.PaidAmount

\* C15: after every step the Due of every listed bill is its TotalAmount
\* minus its PaidAmount, negative when more than the total is paid, and a
\* step in which add_item adds an item leaves every row of the listing, Due
\* included, as it was.
C15_DueIsTotalMinusPaid ==
    [][ /\ DueIsTotalMinusPaid'
        /\ (dialog # None /\ msg' = "Bill item added") => load_bills' = load_bills
      ]_allvars

C15_Witness ==
    /\ msg = "Bill item added"
    /\ \E row \in load_bills :
          /\ row.Paid > row.Total
          /\ row.Due < 0
          /\ \E i \in BillItems : i.BillID = row.BillID

\* the sum of Quantity * UnitPrice over a set of bill items
RECURSIVE ItemsTotal(_)
ItemsTotal(items) ==
    IF items = {}
      THEN 0
      ELSE LET i == CHOOSE x \in items : TRUE
           IN  i.Quantity * i.UnitPrice + ItemsTotal(items \ {i})

ItemsOf(BillID) == { i \in BillItems : i.BillID = BillID }

\* C16: a step in which add_item adds an item stores exactly one new
\* BillItems row, for the bill the dialog was opened on, and leaves the
\* Bills table (TotalAmount, PaidAmount and PaymentStatus of every bill) as
\* it was.
C16_AddItemInsertsOneRow ==
    [][ (dialog # None /\ msg' = "Bill item added")
          => /\ \E new \in BillItems' :
                   /\ new \notin BillItems
                   /\ new.BillID = dialog
                   /\ BillItems' = BillItems \cup {new}
             /\ Bills' = Bills
      ]_allvars

\* an item has been added, and the stored total of its bill is not the sum
\* of the bill's items
C16_Witness ==
    /\ msg = "Bill item added"
    /\ \E b \in Bills : /\ ItemsOf(b.BillID) # {}
                        /\ b.TotalAmount # ItemsTotal(ItemsOf(b.BillID))

\* C17: with the dialog open on a bill, add_item with a service type, a
\* description and numbers entered succeeds exactly when quantity > 0 and
\* unit price >= 0; otherwise it leaves BillItems unchanged; every stored
\* item has Quantity > 0 and UnitPrice >= 0.
C17_AddItemAcceptance ==
    /\ dialog # None =>
         \A item \in ItemForms :
            ( /\ item.service_type # ""
              /\ item.description # ""
              /\ int(item.quantity).ok
              /\ float(item.unit_price).ok )
              => LET out == add_item_outcome(item)
                     accepted == /\ int(item.quantity).value > 0
                                 /\ float(item.unit_price).value >= 0
                 IN  /\ out.saved <=> accepted
                     /\ ~accepted => out.table = BillItems
    /\ \A i \in BillItems : i.Quantity > 0 /\ i.UnitPrice >= 0

\* C18: a step in which delete_bill deletes the selected bill removes that
\* row from Bills and nothing else: the other bills and every BillItems row,
\* those of the deleted bill included, stay as they were.
C18_DeleteBillKeepsItems ==
    [][ (current_bill # None /\ msg' = "Bill deleted")
          => /\ Bills' = { b \in Bills : b.BillID # current_bill }
             /\ \E b \in Bills : b.BillID = current_bill
             /\ BillItems' = BillItems
      ]_allvars

\* a bill has been deleted and an item of a bill that is not stored remains
C18_Witness ==
    /\ msg = "Bill deleted"
    /\ \E i \in BillItems : \A b \in Bills : b.BillID # i.BillID

\* C19: every stored bill has TotalAmount >= 0 and PaidAmount >= 0, and
\* save_bill of a form with a negative total or a negative paid amount,
\* creating or updating, stores nothing and leaves Bills as it was.
C19_AmountsNonNegative ==
    /\ \A b \in Bills : b.TotalAmount >= 0 /\ b.PaidAmount >= 0
    /\ screen = "billing" =>
         \A form \in BillForms :
            ( /\ float(form.total).ok
              /\ form.paid # <<>> => float(form.paid).ok
              /\ \/ float(form.total).value < 0
                 \/ form.paid # <<>> /\ float(form.paid).value < 0 )
              => /\ ~save_bill_outcome(form).saved
                 /\ save_bill_outcome(form).table = Bills

\* the status that goes with the amounts: Unpaid when nothing is paid,
\* PartiallyPaid when less than the total is paid, Paid otherwise
DerivedStatus(total, paid) ==
    IF paid = 0 THEN "Unpaid"
    ELSE IF 0 < paid /\ paid < total THEN "PartiallyPaid"
    ELSE "Paid"

\* C20: the PaymentStatus of every stored bill is the status derived from
\* its TotalAmount and PaidAmount.
C20_StatusIsDerived ==
    \A b \in Bills : b.PaymentStatus = DerivedStatus(b.TotalAmount, b.PaidAmount)

\* C21: save_bill, creating or updating, of a form whose appointment id is
\* the id of no Appointments row stores nothing and leaves Bills as it was.
C21_BillNeedsExistingAppointment ==
    screen = "billing"
        => \A form \in BillForms :
             ( /\ bill_validate_form(form)
               /\ float(form.total).ok
               /\ form.paid # <<>> => float(form.paid).ok
               /\ \A a \in Appointments : a.AppointmentID # IdOf(form.appointment) )
               => /\ ~save_bill_outcome(form).saved
                  /\ save_bill_outcome(form).table = Bills

\* status texts that are none of the three names
OtherStatuses == {"", "Refunded"}

\* the forms on screen with the status replaced by another text
FormsWithStatus(status) == { [form EXCEPT !.status = status] : form \in BillForms }

\* C22: every stored bill's PaymentStatus is Unpaid, PartiallyPaid or Paid;
\* the form of a new bill holds Unpaid; and save_bill of a complete form
\* carrying any other status stores nothing and leaves Bills as it was.
C22_StatusIsOneOfThree ==
    /\ \A b \in Bills : b.PaymentStatus \in {"Unpaid", "PartiallyPaid", "Paid"}
    /\ (screen = "billing" /\ current_bill = None) => bill_vars.status = "Unpaid"
    /\ screen = "billing" =>
         \A status \in OtherStatuses : \A form \in FormsWithStatus(status) :
            ( /\ bill_validate_form(form)
              /\ float(form.total).ok
              /\ form.paid # <<>> => float(form.paid).ok )
              => /\ ~save_bill_outcome(form).saved
                 /\ save_bill_outcome(form).table = Bills

\* a bill has been stored, the form is new again, and a complete form with
\* another status is refused by the table
C22_Witness ==
    /\ screen = "billing"
    /\ msg = "Bill added successfully"
    /\ Bills # {}
    /\ current_bill = None
    /\ \E form \in FormsWithStatus("Refunded") :
          /\ bill_validate_form(form)
          /\ float(form.total).ok
          /\ save_bill_outcome(form).msg = "Database error: CHECK constraint failed"

\* C23: no storage failure inside an operation, database initialisation and
\* seeding included, gets out of the operation: the process is never ended
\* by an exception.
C23_NoFailureEndsTheProcess == screen # "terminated"


\* a second doctor row, deactivated.  The frame cannot store it (the one
\* doctor-role user of the sample data already has a row, and no handler
\* adds users), so the rule for two rows is checked on the storage
\* operators with this row added to the table
DeactivatedDoctor ==
    [DoctorID |-> 2, UserID |-> 3, SpecializationID |-> 2, DepartmentID |-> None,
     LicenseNumber |-> "MD777", YearsOfExperience |-> 0, IsActive |-> 0]

\* `row` would share its UserID or its LicenseNumber with another row
SharesIdentity(row, table) ==
    \E d \in table : /\ d.DoctorID # row.DoctorID
                     /\ \/ d.UserID = row.UserID
                        \/ d.LicenseNumber = row.LicenseNumber

\* the forms save_doctor takes to the storage
StorableDoctorForms ==
    { f \in DoctorForms : /\ doctor_validate_form(f)
                          /\ f.experience = <<>> \/ int(f.experience).ok }

C25_SelectMakesDoctorCurrent ==
    screen = "doctors" =>
      \A DoctorID \in DoctorList :
        on_doctor_select_outcome(DoctorID).current_doctor = DoctorID


\* the stored appointments whose status is Completed, Cancelled or No Show
NotScheduled == { a \in Appointments : a.StatusID \in {2, 3, 4} }

\* C26: while an appointment with status Completed, Cancelled or No Show is
\* stored, every booking of its (doctor, date, time), and every move of
\* another appointment onto it, fails with the UNIQUE-constraint error and
\* leaves the table as it was; a change of its status alone keeps the slot
\* taken; once the appointment is deleted, or moved to another slot, the
\* booking is stored
C26_SlotHeldWhateverStatus ==
    screen = "appointments" =>
      \A a \in NotScheduled : \A form \in FormsAt(a) :
        LET seq == sqlite_sequence.Appointments
            out == save_appointment_outcome(form)
        IN  /\ current_appointment # a.AppointmentID
                 => /\ ~out.saved
                    /\ out.msg = UniqueFailed
                    /\ out.table = Appointments
            /\ \A status \in StatusChoices :
                 LET kept == UpdateAppointment(Appointments, seq, a.AppointmentID,
                                               [FormOfRow(a) EXCEPT !.status = status])
                 IN  kept.ok /\ ~InsertAppointment(kept.table, seq, form).ok
            /\ InsertAppointment(DeleteAppointment(Appointments, a.AppointmentID),
                                 seq, form).ok
            /\ \A date \in Dates \ {""}, time \in Times \ {""} :
                 LET r == UpdateAppointment(Appointments, seq, a.AppointmentID,
                            [FormOfRow(a) EXCEPT !.date = date, !.time = time])
                 IN  r.ok /\ <<date, time>> # <<form.date, form.time>>
                       => InsertAppointment(r.table, seq, form).ok

\* a booking has just been refused while every stored appointment is
\* Completed, Cancelled or No Show
C26_Witness ==
    /\ screen = "appointments"
    /\ current_appointment = None
    /\ msg = UniqueFailed
    /\ Appointments # {}
    /\ NotScheduled = Appointments


\* the stored patients, active or deactivated, that hold the code the
\* trigger would give the next inserted row
HoldersOfNextCode ==
    { p \in Patients : p.PatientCode = PatientCodeOf(sqlite_sequence.Patients + 1) }

\* C27: no two stored patient rows, whatever their IsActive, have the same
\* PatientCode; and a create whose generated code is the code of a stored
\* patient fails with the UNIQUE-constraint error and leaves the Patients
\* table and the id counter as they were
C27_PatientCodesDistinct ==
    /\ \A p1, p2 \in Patients :
         p1.PatientCode = p2.PatientCode => p1.PatientID = p2.PatientID
    /\ (screen = "patients" /\ current_patient = None /\ HoldersOfNextCode # {})
          => \A first_name \in { n \in FirstNames : patient_validate_form(n) } :
               LET out == save_patient_outcome(first_name)
               IN  /\ ~out.saved
                   /\ out.msg = UniqueFailed
                   /\ out.table = Patients
                   /\ out.seq = sqlite_sequence.Patients

\* an insert has just been refused because a deactivated patient holds the
\* generated code
C27_Witness ==
    /\ screen = "patients"
    /\ current_patient = None
    /\ msg = UniqueFailed
    /\ HoldersOfNextCode # {}
    /\ \A p \in HoldersOfNextCode : p.IsActive = 0


\* C28: no step stores a bill item for a bill that is not stored (the
\* selection an Add Item acts on never points at a removed bill)
C28_NoItemForRemovedBill ==
    [][ \A i \in BillItems' \ BillItems : \E b \in Bills : b.BillID = i.BillID ]_allvars


\* C29: a confirmed cancel_appointment removes the row of the current
\* appointment and changes no other table: every bill of that appointment
\* is still stored, the same row, and is no longer in the list of load_bills
C29_CancelKeepsBillsUnlisted ==
    [][ (current_appointment # None /\ msg' = "Appointment cancelled")
          => /\ Appointments' = { a \in Appointments :
                                    a.AppointmentID # current_appointment }
             /\ \E a \in Appointments : a.AppointmentID = current_appointment
             /\ UNCHANGED <<Users, Patients, Doctors, Bills, BillItems, MedicalTests>>
             /\ \A b \in Bills :
                  b.AppointmentID = current_appointment
                    => b \in Bills' /\ b.BillID \notin BillList'
      ]_allvars

\* an appointment with a bill has just been cancelled: the bill is stored
\* and not listed
C29_Witness ==
    /\ msg = "Appointment cancelled"
    /\ \E b \in Bills : /\ \A a \in Appointments : a.AppointmentID # b.AppointmentID
                        /\ b.BillID \notin BillList


\* the Users table with the row of UserID deactivated.  No handler writes
\* Users, so the lookup of authenticate is also checked on these tables
DeactivateUser(users, UserID) ==
    { IF u.UserID = UserID THEN [u EXCEPT !.IsActive = 0] ELSE u : u \in users }

UsersTables == {Users} \cup { DeactivateUser(Users, u.UserID) : u \in Users }

\* C30: a step that leaves the login screen shows the dashboard and sets
\* user_id and user_role to those of a stored user with the entered
\* username, IsActive = 1 and the hash of the entered password; a step that
\* stays on the login screen leaves user_id and user_role as they were; the
\* lookup accepts no deactivated user and no wrong password; and the only
\* step from the main interface to a screen without it is Logout, which
\* shows the login screen and writes nothing
C30_InterfaceOnlyThroughLogin ==
    [][ /\ (screen = "login" /\ screen' # "login")
            => /\ screen' = "dashboard"
               /\ \E username \in Usernames \ {""}, password \in Passwords \ {""} :
                    \E u \in Users :
                       /\ u.Username = username
                       /\ u.IsActive = 1
                       /\ u.PasswordHash = hash_password(password)
                       /\ user_id' = u.UserID
                       /\ user_role' = u.Role
        /\ (screen = "login" /\ screen' = "login")
            => UNCHANGED <<user_id, user_role>>
        /\ \A users \in UsersTables, username \in Usernames, password \in Passwords :
             \A u \in login_result(users, username, password) :
                /\ u.Username = username
                /\ u.IsActive = 1
                /\ u.PasswordHash = hash_password(password)
        /\ (screen \notin NoInterface /\ screen' \in NoInterface)
            => screen' = "login" /\ UNCHANGED vars_db
      ]_allvars

\* a login has just been refused and nobody is logged in
C30_Witness ==
    /\ screen = "login"
    /\ msg = "Invalid credentials"
    /\ user_id = None
    /\ user_role = NoRole

====
